---- MODULE Spec2Model ----
(***************************************************************************)
(* Model of build_mame_database.py: ingestion of DAT documents into the    *)
(* relational catalogue (process_dat_file), the shared-BIOS pass           *)
(* (extract_neogeo_bios), orphan cleanup (cleanup_orphans) and the order   *)
(* in which main() feeds the documents; and of                             *)
(* generate_embedded_database.py: loading the catalogue (load_database),   *)
(* the new ids (remap_ids), the strings and descriptions pools and the     *)
(* bytes of the blob (generate_binary); and of the lookup routines of the  *)
(* generated C header (mrdb_find_rom_by_sha1, mrdb_get_machines_for_rom),  *)
(* which run on such bytes under the specification SpecConsumer.           *)
(*                                                                         *)
(* Conventions.  A Python str is a sequence of one-character strings, so   *)
(* that case, substrings, hex digits and ordering are computed and not     *)
(* assumed.  A Python None in a string position is the value None below.   *)
(* A nullable SQL column holds NULL (the empty tuple) or Some(v) = <<v>>.  *)
(* bytes are sequences of integers 0..255.                                 *)
(* Digests are scaled down: a SHA-1 is SHA1_BYTES bytes long in the model. *)
(***************************************************************************)
EXTENDS Integers, Sequences, FiniteSets, TLC

VARIABLES
    pc,                  \* position of the build script
    mode,                \* which branch of main() runs
    dat_files,           \* the documents of this run, in processing order
    doc,                 \* index in dat_files of the document being read
    db,                  \* the catalogue as the connection sees it
    disk,                \* the catalogue as of the last commit
    manufacturers_cache, \* name -> manufacturer id
    rom_names_cache,     \* filename -> rom_name id
    roms_cache,          \* sha1 attribute text -> <<rom id, name id>>
    existing_machines,   \* names of the machines ingested so far
    machine_id,          \* last machine id handed out
    machines_data,       \* machines of the current document, not yet inserted
    machine_roms_data,   \* machine_roms rows of the current document
    machines_skipped,    \* duplicates skipped in the current document
    elem,                \* the <machine> element just parsed (raw)
    machine_attrs,       \* parse_machine's first result for elem
    roms,                \* parse_machine's second result for elem
    nelems,              \* number of <machine> elements read so far
    fixture,             \* which family of inputs the run draws from
    out,                 \* what the generator made of the catalogue file
    call                 \* the call of a consumer routine in progress

vars == <<pc, mode, dat_files, doc, db, disk, manufacturers_cache,
          rom_names_cache, roms_cache, existing_machines, machine_id,
          machines_data, machine_roms_data, machines_skipped, elem,
          machine_attrs, roms, nelems, fixture, out, call>>

-----------------------------------------------------------------------------
(* Bounds and constants *)

\* Most <machine> elements read over all runs.
MaxElems == 2

\* Length in bytes of a SHA-1 digest in the model (20 in reality).
SHA1_BYTES == 1

MIN_ROM_SIZE == 256
MAX_ROM_SIZE == 8 * 1024 * 1024
\* 4000 in the source; scaled down so that a shared ROM fits in the bounds.
NEOGEO_BIOS_THRESHOLD == 2

-----------------------------------------------------------------------------
(* Python values *)

None == <<"None">>
NULL == <<>>
Some(v) == <<v>>

\* Python truthiness of an optional str: neither None nor "".
Truthy(s) == s # None /\ s # <<>>

Digits == <<"0", "1", "2", "3", "4", "5", "6", "7", "8", "9">>
UpperCase == <<"A", "B", "C", "D", "E", "F", "G", "H", "I", "J", "K", "L", "M",
               "N", "O", "P", "Q", "R", "S", "T", "U", "V", "W", "X", "Y", "Z">>
LowerCase == <<"a", "b", "c", "d", "e", "f", "g", "h", "i", "j", "k", "l", "m",
               "n", "o", "p", "q", "r", "s", "t", "u", "v", "w", "x", "y", "z">>

IndexOf(s, c) ==
    IF \E i \in 1..Len(s) : s[i] = c
    THEN CHOOSE i \in 1..Len(s) : s[i] = c
    ELSE 0

\* ASCII code of a character of the model's alphabet.
Ord(c) ==
    IF IndexOf(Digits, c) > 0 THEN 47 + IndexOf(Digits, c)
    ELSE IF IndexOf(UpperCase, c) > 0 THEN 64 + IndexOf(UpperCase, c)
    ELSE IF IndexOf(LowerCase, c) > 0 THEN 96 + IndexOf(LowerCase, c)
    ELSE IF c = "." THEN 46
    ELSE IF c = "-" THEN 45
    ELSE IF c = "_" THEN 95
    ELSE 32

\* str.lower()
LowerChar(c) ==
    IF IndexOf(UpperCase, c) > 0 THEN LowerCase[IndexOf(UpperCase, c)] ELSE c

lower(s) == [i \in 1..Len(s) |-> LowerChar(s[i])]

\* sub in s
Contains(sub, s) ==
    \E i \in 0..(Len(s) - Len(sub)) : SubSeq(s, i + 1, i + Len(sub)) = sub

\* s.startswith(pre)
StartsWith(s, pre) ==
    Len(s) >= Len(pre) /\ SubSeq(s, 1, Len(pre)) = pre

\* a < b for two str (code point order)
RECURSIVE StrLess(_, _)
StrLess(a, b) ==
    IF b = <<>> THEN FALSE
    ELSE IF a = <<>> THEN TRUE
    ELSE IF Ord(Head(a)) # Ord(Head(b)) THEN Ord(Head(a)) < Ord(Head(b))
    ELSE StrLess(Tail(a), Tail(b))

\* Value of a hexadecimal digit, -1 for any other character.
HexVal(c) ==
    IF IndexOf(Digits, c) > 0 THEN IndexOf(Digits, c) - 1
    ELSE IF IndexOf(SubSeq(LowerCase, 1, 6), c) > 0
         THEN 9 + IndexOf(SubSeq(LowerCase, 1, 6), c)
    ELSE IF IndexOf(SubSeq(UpperCase, 1, 6), c) > 0
         THEN 9 + IndexOf(SubSeq(UpperCase, 1, 6), c)
    ELSE -1

IsHex(s) == \A i \in 1..Len(s) : HexVal(s[i]) >= 0

\* bytes.fromhex(s) for a str without whitespace: ok is FALSE where Python
\* raises ValueError (a non-hexadecimal character, an odd number of digits).
fromhex(s) ==
    IF IsHex(s) /\ Len(s) % 2 = 0
    THEN [ok |-> TRUE,
          bytes |-> [i \in 1..(Len(s) \div 2) |->
                        16 * HexVal(s[2 * i - 1]) + HexVal(s[2 * i])]]
    ELSE [ok |-> FALSE, bytes |-> <<>>]

HexDigit(n) == IF n < 10 THEN Digits[n + 1] ELSE LowerCase[n - 9]

\* bytes.hex(): two lower-case digits per byte
hex(b) ==
    [i \in 1..(2 * Len(b)) |->
        IF i % 2 = 1 THEN HexDigit(b[(i + 1) \div 2] \div 16)
        ELSE HexDigit(b[i \div 2] % 16)]

RECURSIVE DigitsValue(_)
DigitsValue(s) ==
    IF s = <<>> THEN 0
    ELSE 10 * DigitsValue(SubSeq(s, 1, Len(s) - 1)) + (IndexOf(Digits, s[Len(s)]) - 1)

AllDigits(s) == s # <<>> /\ \A i \in 1..Len(s) : IndexOf(Digits, s[i]) > 0

\* int(s) for a str without whitespace or underscores: an optional sign and
\* decimal digits; ok is FALSE where Python raises ValueError.
int(s) ==
    IF AllDigits(s) THEN [ok |-> TRUE, val |-> DigitsValue(s)]
    ELSE IF s # <<>> /\ Head(s) \in {"-", "+"} /\ AllDigits(Tail(s))
         THEN [ok |-> TRUE,
               val |-> IF Head(s) = "-" THEN 0 - DigitsValue(Tail(s))
                       ELSE DigitsValue(Tail(s))]
    ELSE [ok |-> FALSE, val |-> 0]

\* a & b for non-negative integers
RECURSIVE BitAnd(_, _)
BitAnd(a, b) ==
    IF a = 0 \/ b = 0 THEN 0
    ELSE (a % 2) * (b % 2) + 2 * BitAnd(a \div 2, b \div 2)

\* int(math.log2(n)) for n >= 1
RECURSIVE log2(_)
log2(n) == IF n < 2 THEN 0 ELSE 1 + log2(n \div 2)

Pow2(k) == 2 ^ k

\* zlib.compress(text): an opaque blob that determines its text
compress(text) == <<"zlib", text>>

-----------------------------------------------------------------------------
(* The catalogue *)

EmptyDb ==
    [manufacturers |-> {},      \* rows [id, name]
     rom_names     |-> {},      \* rows [id, name]
     roms          |-> {},      \* rows [id, sha1, crc, size_pow2, name_id]
     machines      |-> {},      \* rows [id, name, cloneof_id, romof_id,
                                \*       description, year, manufacturer_id]
                                \* and, for the analysis only, the raw
                                \* cloneof and romof names of the element
     machine_roms  |-> <<>>,    \* rows [machine_id, rom_id, name_id] by rowid
     \* AUTOINCREMENT: the largest rowid ever handed out, per table
     seq |-> [manufacturers |-> 0, rom_names |-> 0, roms |-> 0]]

EmptyCache == [k \in {} |-> 0]

Ids(table) == {r.id : r \in table}

Max(S) == CHOOSE x \in S : \A y \in S : y <= x

\* SELECT MAX(id) FROM machines, with Python's "or 0"
max_machine_id(d) == IF d.machines = {} THEN 0 ELSE Max(Ids(d.machines))

Range(s) == {s[i] : i \in 1..Len(s)}

-----------------------------------------------------------------------------
(* parse_machine *)

BlankElem ==
    [name |-> None, cloneof |-> None, romof |-> None, description |-> None,
     year |-> None, manufacturer |-> None, roms |-> <<>>]

BlankAttrs ==
    [name |-> None, cloneof |-> None, romof |-> None, description |-> None,
     year |-> NULL, manufacturer |-> None]

\* The power-of-two test dropped: every size within the limits is accepted.
is_valid_rom_size_no_pow2(size) ==
    IF size = NULL THEN FALSE
    ELSE size[1] >= MIN_ROM_SIZE /\ size[1] <= MAX_ROM_SIZE

is_valid_rom_size(size) ==
    IF size = NULL \/ size[1] < MIN_ROM_SIZE \/ size[1] > MAX_ROM_SIZE
    THEN FALSE
    ELSE size[1] > 0 /\ BitAnd(size[1], size[1] - 1) = 0

\* size = int(size_str) if size_str else None, None on ValueError
rom_size(rom_elem) ==
    IF Truthy(rom_elem.size) /\ int(rom_elem.size).ok
    THEN Some(int(rom_elem.size).val)
    ELSE NULL

\* A <rom> that parse_machine keeps.
rom_kept(rom_elem) ==
    is_valid_rom_size(rom_size(rom_elem)) /\ Truthy(rom_elem.sha1)

parse_roms(e) ==
    LET kept == SelectSeq(e.roms, rom_kept)
    IN  [i \in 1..Len(kept) |->
            [name |-> kept[i].name,
             size |-> rom_size(kept[i])[1],
             crc  |-> kept[i].crc,
             sha1 |-> kept[i].sha1]]

\* int(year_elem.text[:4]), None when the text is absent, empty or no number
parse_year(text) ==
    IF Truthy(text)
    THEN LET first4 == SubSeq(text, 1, IF Len(text) < 4 THEN Len(text) ELSE 4)
         IN  IF int(first4).ok THEN Some(int(first4).val) ELSE NULL
    ELSE NULL

parse_attrs(e) ==
    [name |-> e.name, cloneof |-> e.cloneof, romof |-> e.romof,
     description |-> e.description, year |-> parse_year(e.year),
     manufacturer |-> e.manufacturer]

-----------------------------------------------------------------------------
(* process_dat_file: one <machine> element *)

\* The duplicate test dropped: every named machine with ROMs is ingested.
is_existing_machine_never(name, existing) == FALSE

\* machine_attrs['name'] in existing_machines
is_existing_machine(name, existing) == name \in existing

\* Get/create manufacturer.  s = [db, manufacturers_cache]
intern_manufacturer(manuf_name, d, cache) ==
    IF ~Truthy(manuf_name) THEN [db |-> d, cache |-> cache, id |-> NULL]
    ELSE IF manuf_name \in DOMAIN cache
         THEN [db |-> d, cache |-> cache, id |-> Some(cache[manuf_name])]
    ELSE LET id == d.seq.manufacturers + 1
         IN  [db |-> [d EXCEPT !.manufacturers = @ \cup {[id |-> id, name |-> manuf_name]},
                               !.seq.manufacturers = id],
              cache |-> cache @@ (manuf_name :> id),
              id |-> Some(id)]

\* One iteration of "for rom in roms".  s = [db, rom_names_cache, roms_cache,
\* machine_roms_data, ok]; ok turns FALSE where Python raises (a NULL name
\* for the NOT NULL column, bytes.fromhex on a text that is no hex).
process_rom(rom, mid, s) ==
    LET name_new == rom.name \notin DOMAIN s.rom_names_cache
        name_id  == IF name_new THEN s.db.seq.rom_names + 1
                    ELSE s.rom_names_cache[rom.name]
        d1 == IF name_new
              THEN [s.db EXCEPT !.rom_names = @ \cup {[id |-> name_id, name |-> rom.name]},
                                !.seq.rom_names = name_id]
              ELSE s.db
        names1 == IF name_new THEN s.rom_names_cache @@ (rom.name :> name_id)
                  ELSE s.rom_names_cache
        rom_new == rom.sha1 \notin DOMAIN s.roms_cache
        sha1_bin == fromhex(rom.sha1)
        crc_bin == IF Truthy(rom.crc) THEN fromhex(rom.crc)
                   ELSE [ok |-> TRUE, bytes |-> <<>>]
        new_id == d1.seq.roms + 1
        d2 == IF rom_new
              THEN [d1 EXCEPT !.roms = @ \cup
                        {[id |-> new_id,
                          sha1 |-> sha1_bin.bytes,
                          crc |-> IF Truthy(rom.crc) THEN Some(crc_bin.bytes) ELSE NULL,
                          size_pow2 |-> log2(rom.size),
                          name_id |-> name_id]},
                              !.seq.roms = new_id]
              ELSE d1
        cache2 == IF rom_new THEN s.roms_cache @@ (rom.sha1 :> <<new_id, name_id>>)
                  ELSE s.roms_cache
        raised == \/ name_new /\ rom.name = None
                  \/ rom_new /\ (~sha1_bin.ok \/ ~crc_bin.ok)
    IN  IF raised THEN [s EXCEPT !.ok = FALSE]
        ELSE [db |-> d2,
              rom_names_cache |-> names1,
              roms_cache |-> cache2,
              machine_roms_data |-> Append(s.machine_roms_data,
                    [machine_id |-> mid, rom_id |-> cache2[rom.sha1][1],
                     name_id |-> name_id]),
              ok |-> TRUE]

RECURSIVE process_roms(_, _, _)
process_roms(rs, mid, s) ==
    IF rs = <<>> \/ ~s.ok THEN s
    ELSE process_roms(Tail(rs), mid, process_rom(Head(rs), mid, s))

-----------------------------------------------------------------------------
(* process_dat_file: end of a document *)

\* name_to_id: the machines of this document, then (overriding) the machines
\* already in the table.
name_to_id(d, data) ==
    LET names == {r.name : r \in d.machines} \cup {m.name : m \in Range(data)}
        from_db(n) == (CHOOSE r \in d.machines : r.name = n).id
        last(n) == Max({i \in 1..Len(data) : data[i].name = n})
    IN  [n \in names |->
            IF \E r \in d.machines : r.name = n THEN from_db(n)
            ELSE data[last(n)].id]

\* name_to_id.get(raw)
resolve_parent(raw, n2i) ==
    IF raw \in DOMAIN n2i THEN Some(n2i[raw]) ELSE NULL

\* CHECK(year >= 0 AND year <= 65535); a NULL year passes
year_check(year) == year = NULL \/ (year[1] >= 0 /\ year[1] <= 65535)

\* The rows inserted into machines for the buffered machines.
resolved_machines(d, data) ==
    LET n2i == name_to_id(d, data)
    IN  {[id |-> m.id, name |-> m.name,
          cloneof |-> m.cloneof, romof |-> m.romof,
          cloneof_id |-> resolve_parent(m.cloneof, n2i),
          romof_id |-> resolve_parent(m.romof, n2i),
          description |-> m.description, year |-> m.year,
          manufacturer_id |-> m.manufacturer_id] : m \in Range(data)}

-----------------------------------------------------------------------------
(* load_caches_from_db *)

load_manufacturers_cache(d) ==
    [n \in {r.name : r \in d.manufacturers} |->
        (CHOOSE r \in d.manufacturers : r.name = n).id]

load_rom_names_cache(d) ==
    [n \in {r.name : r \in d.rom_names} |->
        (CHOOSE r \in d.rom_names : r.name = n).id]

\* Keyed by row[1].hex(); of several rows with the same digest the one read
\* last (the largest id) stays.
load_roms_cache(d) ==
    LET keyed == {r \in d.roms : r.sha1 # <<>>}
        row(k) == CHOOSE r \in keyed :
                    /\ hex(r.sha1) = k
                    /\ \A q \in keyed : hex(q.sha1) = k => q.id <= r.id
    IN  [k \in {hex(r.sha1) : r \in keyed} |-> <<row(k).id, row(k).name_id>>]

load_existing_machines(d) == {r.name : r \in d.machines}

-----------------------------------------------------------------------------
(* extract_neogeo_bios *)

neogeo_bios == <<"n", "e", "o", "g", "e", "o", "_", "b", "i", "o", "s">>
SNK == <<"S", "N", "K">>
\* the fixed description "Neo-Geo BIOS ROMs - Shared system ROMs ...", abridged
NEOGEO_DESC == <<"N", "e", "o", "-", "G", "e", "o">>

RECURSIVE SortedSeq(_)
SortedSeq(S) ==
    IF S = {} THEN <<>>
    ELSE LET m == CHOOSE x \in S : \A y \in S : x <= y
         IN  <<m>> \o SortedSeq(S \ {m})

\* COUNT(mr.machine_id) of the group of rom_id rid
link_count(d, rid) ==
    Cardinality({i \in 1..Len(d.machine_roms) : d.machine_roms[i].rom_id = rid})

\* The ROMs with more than the threshold of machine_roms rows.
bios_rom_ids(d) ==
    {r.id : r \in {q \in d.roms : link_count(d, q.id) > NEOGEO_BIOS_THRESHOLD}}

\* The filename of the row of highest rowid taken instead.
first_name_id_last(d, rid) ==
    LET i == CHOOSE j \in 1..Len(d.machine_roms) :
                /\ d.machine_roms[j].rom_id = rid
                /\ \A k \in (j + 1)..Len(d.machine_roms) :
                      d.machine_roms[k].rom_id # rid
    IN  d.machine_roms[i].name_id

\* SELECT name_id FROM machine_roms WHERE rom_id = ? LIMIT 1: SQLite returns
\* the row of lowest rowid.
first_name_id(d, rid) ==
    LET i == CHOOSE j \in 1..Len(d.machine_roms) :
                /\ d.machine_roms[j].rom_id = rid
                /\ \A k \in 1..(j - 1) : d.machine_roms[k].rom_id # rid
    IN  d.machine_roms[i].name_id

\* The links of the synthetic machine deleted with the others.
bios_link_kept_none(mr, B, neogeo_id) == mr.rom_id \notin B

\* The links of the other machines left in place.
bios_link_kept_all(mr, B, neogeo_id) == TRUE

\* The rows that DELETE FROM machine_roms WHERE rom_id IN (B) AND
\* machine_id != neogeo_id leaves.
bios_link_kept(mr, B, neogeo_id) ==
    mr.rom_id \notin B \/ mr.machine_id = neogeo_id

extract_neogeo_bios(d) ==
    IF \E m \in d.machines : m.name = neogeo_bios THEN d
    ELSE IF bios_rom_ids(d) = {} THEN d
    ELSE LET B == bios_rom_ids(d)
             has_snk == \E r \in d.manufacturers : r.name = SNK
             snk_id == IF has_snk
                       THEN (CHOOSE r \in d.manufacturers : r.name = SNK).id
                       ELSE d.seq.manufacturers + 1
             neogeo_id == max_machine_id(d) + 1
             ids == SortedSeq(B)
             links == [i \in 1..Len(ids) |->
                         [machine_id |-> neogeo_id, rom_id |-> ids[i],
                          name_id |-> first_name_id(d, ids[i])]]
             keep(mr) == bios_link_kept(mr, B, neogeo_id)
         IN  [d EXCEPT
                !.manufacturers = IF has_snk THEN @
                                  ELSE @ \cup {[id |-> snk_id, name |-> SNK]},
                !.seq.manufacturers = IF has_snk THEN @ ELSE snk_id,
                !.machines = @ \cup
                    {[id |-> neogeo_id, name |-> neogeo_bios,
                      cloneof |-> None, romof |-> None,
                      cloneof_id |-> NULL, romof_id |-> NULL,
                      description |-> Some(compress(NEOGEO_DESC)),
                      year |-> Some(1990),
                      manufacturer_id |-> Some(snk_id)]},
                !.machine_roms = SelectSeq(@ \o links, keep)]

-----------------------------------------------------------------------------
(* cleanup_orphans *)

\* The orphan parent references left in place.
clean_ref_keep(ref, machines) == ref

\* UPDATE machines SET x = NULL WHERE x IS NOT NULL AND x NOT IN (ids)
clean_ref(ref, machines) ==
    IF ref # NULL /\ ref[1] \notin Ids(machines) THEN NULL ELSE ref

\* The manufacturers left in place.
used_manufacturers_all(manufacturers, machines) == manufacturers

\* DELETE FROM manufacturers WHERE id NOT IN (manufacturer ids of machines)
used_manufacturers(manufacturers, machines) ==
    {f \in manufacturers : \E m \in machines : m.manufacturer_id = Some(f.id)}

\* DELETE FROM machines WHERE id NOT IN (machine ids of machine_roms)
machines_with_roms(machines, machine_roms) ==
    {m \in machines : \E mr \in Range(machine_roms) : mr.machine_id = m.id}

\* DELETE FROM rom_names WHERE id is neither a roms.name_id nor a
\* machine_roms.name_id
used_rom_names(rom_names, rs, machine_roms) ==
    {n \in rom_names :
        \/ \E r \in rs : r.name_id = n.id
        \/ \E mr \in Range(machine_roms) : mr.name_id = n.id}

\* The manufacturers tested against the machines as they were before the
\* first DELETE.
cleanup_orphans_stale(d) ==
    LET machines1 == machines_with_roms(d.machines, d.machine_roms)
    IN  [d EXCEPT
            !.machines = {[m EXCEPT !.cloneof_id = clean_ref(@, machines1),
                                    !.romof_id = clean_ref(@, machines1)]
                          : m \in machines1},
            !.rom_names = used_rom_names(@, d.roms, d.machine_roms),
            !.manufacturers = used_manufacturers(@, d.machines)]

cleanup_orphans(d) ==
    LET machines1 == machines_with_roms(d.machines, d.machine_roms)
    IN  [d EXCEPT
            !.machines = {[m EXCEPT !.cloneof_id = clean_ref(@, machines1),
                                    !.romof_id = clean_ref(@, machines1)]
                          : m \in machines1},
            !.rom_names = used_rom_names(@, d.roms, d.machine_roms),
            !.manufacturers = used_manufacturers(@, machines1)]

-----------------------------------------------------------------------------
(* main: the order of the documents *)

mame == <<"m", "a", "m", "e">>
mess == <<"m", "e", "s", "s">>

sort_key(path) ==
    LET name == lower(path)
    IN  IF Contains(mame, name) /\ ~Contains(mess, name)
        THEN <<0, name>> ELSE <<1, name>>

\* sorted(dat_files) compares the paths themselves (one directory).
path_key(path) == <<0, path>>

KeyLess(k1, k2) == k1[1] < k2[1] \/ (k1[1] = k2[1] /\ StrLess(k1[2], k2[2]))

\* list.sort / sorted are stable: x goes before the first element of the
\* sorted prefix whose key is greater.
insert_by_key(sorted, x) ==
    LET greater == {i \in 1..Len(sorted) : KeyLess(x[1], sorted[i][1])}
        p == IF greater = {} THEN Len(sorted) + 1
             ELSE CHOOSE i \in greater : \A j \in greater : i <= j
    IN  SubSeq(sorted, 1, p - 1) \o <<x>> \o SubSeq(sorted, p, Len(sorted))

RECURSIVE sort_keyed(_)
sort_keyed(pairs) ==
    IF pairs = <<>> THEN <<>>
    ELSE insert_by_key(sort_keyed(SubSeq(pairs, 1, Len(pairs) - 1)),
                       pairs[Len(pairs)])

\* dat_files.sort(key=sort_key)
sort_mame_first(found) ==
    LET s == sort_keyed([i \in 1..Len(found) |-> <<sort_key(found[i]), found[i]>>])
    IN  [i \in 1..Len(s) |-> s[i][2]]

\* sorted(dat_files)
sorted(found) ==
    LET s == sort_keyed([i \in 1..Len(found) |-> <<path_key(found[i]), found[i]>>])
    IN  [i \in 1..Len(s) |-> s[i][2]]

\* The processing order main() gives the documents it found.
processing_order(m, found) ==
    IF m = "download" THEN sort_mame_first(found)
    ELSE IF m = "no_download" THEN sorted(found)
    ELSE found

-----------------------------------------------------------------------------
(* generate_embedded_database.py: load_database *)

\* 0xFFFF in the source, the largest index make_rom_id accepts; scaled down so
\* that a size class can exceed it within the bounds.
ROM_INDEX_MAX == 1

\* Width in bits of a manufacturer id in the blob; 16 in the source, scaled
\* down so that the manufacturers can exceed it within the bounds.
MANUF_ID_BITS == 1

NULL_ID_24 == Pow2(24) - 1
NULL_ID_16 == Pow2(MANUF_ID_BITS) - 1

\* a | b for non-negative integers
RECURSIVE BitOr(_, _)
BitOr(a, b) ==
    IF a = 0 THEN b
    ELSE IF b = 0 THEN a
    ELSE (IF a % 2 = 1 \/ b % 2 = 1 THEN 1 ELSE 0) + 2 * BitOr(a \div 2, b \div 2)

\* a < b for two bytes values (memcmp, then length)
RECURSIVE BytesLess(_, _)
BytesLess(a, b) ==
    IF b = <<>> THEN FALSE
    ELSE IF a = <<>> THEN TRUE
    ELSE IF Head(a) # Head(b) THEN Head(a) < Head(b)
    ELSE BytesLess(Tail(a), Tail(b))

\* A stable sort of s by the keys, keys[i] being the key of s[i] (a tuple of
\* integers, compared like bytes): an element comes after those of a smaller
\* key and after the earlier ones of the same key.
StableSort(s, keys) ==
    LET rank(i) == Cardinality({j \in 1..Len(s) :
                        \/ BytesLess(keys[j], keys[i])
                        \/ keys[j] = keys[i] /\ j < i})
    IN  [p \in 1..Len(s) |-> s[CHOOSE i \in 1..Len(s) : rank(i) = p - 1]]

\* The rows of a table by ascending id (rowid).
RECURSIVE ById(_)
ById(T) ==
    IF T = {} THEN <<>>
    ELSE LET m == CHOOSE r \in T : \A q \in T : r.id <= q.id
         IN  <<m>> \o ById(T \ {m})

Reverse(s) == [i \in 1..Len(s) |-> s[Len(s) + 1 - i]]

\* SQL leaves the order of the rows with equal ORDER BY keys open: they come
\* by ascending or by descending rowid.
Ties == {"rowid", "reverse"}

\* SELECT id, sha1, size_pow2, name_id FROM roms WHERE size_pow2 within the
\* band AND length(sha1) = 20 ORDER BY size_pow2, sha1
load_roms(d, min_size_pow2, max_size_pow2, tie) ==
    LET rows == {r \in d.roms : /\ r.size_pow2 >= min_size_pow2
                                /\ r.size_pow2 <= max_size_pow2
                                /\ Len(r.sha1) = SHA1_BYTES}
        scan == IF tie = "rowid" THEN ById(rows) ELSE Reverse(ById(rows))
        s == StableSort(scan, [i \in 1..Len(scan) |->
                                 <<scan[i].size_pow2>> \o scan[i].sha1])
    IN  [i \in 1..Len(s) |->
            [old_id |-> s[i].id, sha1 |-> s[i].sha1,
             size_pow2 |-> s[i].size_pow2, name_id |-> s[i].name_id]]

\* SELECT ... FROM machines ORDER BY id; 'year' is row['year'] if row['year']
\* else 0
load_machines(d) ==
    {[id |-> m.id, name |-> m.name, cloneof_id |-> m.cloneof_id,
      romof_id |-> m.romof_id, description |-> m.description,
      year |-> IF m.year = NULL THEN 0 ELSE m.year[1],
      manufacturer_id |-> m.manufacturer_id] : m \in d.machines}

\* SELECT machine_id, rom_id, name_id FROM machine_roms ORDER BY rom_id,
\* machine_id, the rows of the loaded ROMs only
load_machine_roms(d, rom_old_ids, tie) ==
    LET scan == IF tie = "rowid" THEN d.machine_roms ELSE Reverse(d.machine_roms)
        loaded(mr) == mr.rom_id \in rom_old_ids
    IN  SelectSeq(StableSort(scan, [i \in 1..Len(scan) |->
                                      <<scan[i].rom_id, scan[i].machine_id>>]),
                  loaded)

load_database(d, min_size_pow2, max_size_pow2, tie) ==
    LET rs == load_roms(d, min_size_pow2, max_size_pow2, tie)
    IN  [manufacturers |-> d.manufacturers,
         rom_names |-> d.rom_names,
         roms |-> rs,
         machines |-> load_machines(d),
         machine_roms |-> load_machine_roms(d, {r.old_id : r \in Range(rs)}, tie)]

-----------------------------------------------------------------------------
(* generate_embedded_database.py: remap_ids *)

\* The 16-bit test dropped: every index is accepted.
make_rom_id_unchecked(size_pow2, index) ==
    [ok |-> TRUE, id |-> BitOr(size_pow2 * Pow2(16), index)]

\* ok is FALSE where Python raises ValueError.
make_rom_id(size_pow2, index) ==
    IF index > ROM_INDEX_MAX THEN [ok |-> FALSE, id |-> 0]
    ELSE [ok |-> TRUE, id |-> BitOr(size_pow2 * Pow2(16), index)]

\* The position in the whole table taken for the index.
rom_index_global(rs, i) == i - 1

\* idx of enumerate(roms_list) for the ROM at position i of data['roms']
rom_index(rs, i) ==
    Cardinality({j \in 1..(i - 1) : rs[j].size_pow2 = rs[i].size_pow2})

\* size_index[size_pow2] = (global_index, len(roms_list))
size_index(rs, min_size_pow2, max_size_pow2) ==
    [k \in min_size_pow2..max_size_pow2 |->
        <<Cardinality({j \in 1..Len(rs) : rs[j].size_pow2 < k}),
          Cardinality({j \in 1..Len(rs) : rs[j].size_pow2 = k})>>]

\* dict.get(key, default) for a map from old ids to new ids
Get(map, key, default) == IF key \in DOMAIN map THEN map[key] ELSE default

\* old id -> 0-based rank in sorted(ids)
sequential_ids(ids) ==
    [old \in ids |-> Cardinality({x \in ids : x < old})]

\* map.get(old, null) if old else null, for a nullable column
remap_ref(ref, map, null) ==
    IF ref # NULL /\ ref[1] # 0 THEN Get(map, ref[1], null) ELSE null

\* data.get(old_id, default) for the tables loaded as id -> name
name_of(table, old_id, default) ==
    IF \E r \in table : r.id = old_id
    THEN (CHOOSE r \in table : r.id = old_id).name
    ELSE default

Unknown == <<"U", "n", "k", "n", "o", "w", "n">>

\* The sort of the remapped machine_roms left out.
sort_machine_roms_none(rows) == rows

\* new_machine_roms.sort(key=lambda x: (x['rom_id'], x['machine_id']))
sort_machine_roms(rows) ==
    StableSort(rows, [i \in 1..Len(rows) |-> <<rows[i].rom_id, rows[i].machine_id>>])

\* The parent references copied without the lookup in machine_id_map.
remap_machine_unmapped(m, machine_id_map, manufacturer_id_map) ==
    [old_id |-> m.id, name |-> m.name,
     cloneof_id |-> IF m.cloneof_id = NULL THEN NULL_ID_24 ELSE m.cloneof_id[1],
     romof_id |-> IF m.romof_id = NULL THEN NULL_ID_24 ELSE m.romof_id[1],
     description |-> m.description, year |-> m.year,
     manufacturer_id |-> remap_ref(m.manufacturer_id, manufacturer_id_map, NULL_ID_16)]

\* "Update references in machines"
remap_machine(m, machine_id_map, manufacturer_id_map) ==
    [old_id |-> m.id, name |-> m.name,
     cloneof_id |-> remap_ref(m.cloneof_id, machine_id_map, NULL_ID_24),
     romof_id |-> remap_ref(m.romof_id, machine_id_map, NULL_ID_24),
     description |-> m.description, year |-> m.year,
     manufacturer_id |-> remap_ref(m.manufacturer_id, manufacturer_id_map, NULL_ID_16)]

\* ok is FALSE where make_rom_id raises; the tables are sequences whose
\* element i + 1 is the entity of new id i.
remap_ids(data, min_size_pow2, max_size_pow2) ==
    LET rs == data.roms
        new_id(i) == make_rom_id(rs[i].size_pow2, rom_index(rs, i))
        rom_id_map == [old \in {r.old_id : r \in Range(rs)} |->
                          new_id(CHOOSE i \in 1..Len(rs) : rs[i].old_id = old).id]
        with_roms == {mr.machine_id : mr \in Range(data.machine_roms)}
        machine_id_map == sequential_ids({m.id : m \in data.machines} \cap with_roms)
        kept == {m \in data.machines : m.id \in with_roms}
        manufacturer_id_map ==
            sequential_ids({m.manufacturer_id[1] :
                               m \in {k \in kept : k.manufacturer_id # NULL}})
        rom_name_id_map ==
            sequential_ids({r.name_id : r \in Range(rs)}
                           \cup {mr.name_id : mr \in Range(data.machine_roms)})
        mapped(mr) == mr.machine_id \in DOMAIN machine_id_map
                      /\ mr.rom_id \in DOMAIN rom_id_map
        rows == SelectSeq(data.machine_roms, mapped)
        old_of(map, new) == CHOOSE old \in DOMAIN map : map[old] = new
    IN  [ok |-> \A i \in 1..Len(rs) : new_id(i).ok,
         roms |-> [i \in 1..Len(rs) |->
                     [old_id |-> rs[i].old_id, sha1 |-> rs[i].sha1,
                      size_pow2 |-> rs[i].size_pow2, new_id |-> new_id(i).id,
                      name_id |-> Get(rom_name_id_map, rs[i].name_id, NULL_ID_24)]],
         machines |-> [n \in 1..Cardinality(DOMAIN machine_id_map) |->
                         remap_machine(
                             CHOOSE m \in kept : machine_id_map[m.id] = n - 1,
                             machine_id_map, manufacturer_id_map)],
         machine_roms |-> sort_machine_roms(
                         [i \in 1..Len(rows) |->
                             [machine_id |-> machine_id_map[rows[i].machine_id],
                              rom_id |-> rom_id_map[rows[i].rom_id],
                              name_id |-> Get(rom_name_id_map, rows[i].name_id,
                                              NULL_ID_24)]]),
         manufacturers |-> [n \in 1..Cardinality(DOMAIN manufacturer_id_map) |->
                              name_of(data.manufacturers,
                                      old_of(manufacturer_id_map, n - 1), Unknown)],
         rom_names |-> [n \in 1..Cardinality(DOMAIN rom_name_id_map) |->
                          name_of(data.rom_names,
                                  old_of(rom_name_id_map, n - 1), <<>>)],
         size_index |-> size_index(rs, min_size_pow2, max_size_pow2),
         rom_id_map |-> rom_id_map]

-----------------------------------------------------------------------------
(* generate_embedded_database.py: the pools *)

\* 64 in the source
HEADER_SIZE == 64

\* 23 in the source: the digest and the three bytes of the name id
ROM_ENTRY_SIZE == SHA1_BYTES + 3

MAGIC == <<77, 82, 68, 66>>
VERSION == 1

\* struct.pack('<B' / '<H' / '<I', value): n bytes, the least significant
\* first
RECURSIVE pack(_, _)
pack(value, n) ==
    IF n = 0 THEN <<>> ELSE <<value % 256>> \o pack(value \div 256, n - 1)

\* The value a consumer reads from little-endian bytes (a uint16_t or
\* uint32_t field, MRDB_READ_UINT24).
RECURSIVE unpack(_)
unpack(b) == IF b = <<>> THEN 0 ELSE Head(b) + 256 * unpack(Tail(b))

\* s.encode('utf-8') for a str of the model's alphabet
utf8(s) == [i \in 1..Len(s) |-> Ord(s[i])]

\* The bytes of a description as the catalogue stores it: the zlib header and
\* a stream that determines the text.
zlib_bytes(z) == <<120, 156>> \o utf8(z[2])

RECURSIVE Concat(_)
Concat(parts) == IF parts = <<>> THEN <<>> ELSE Head(parts) \o Concat(Tail(parts))

\* sorted(strings) for a set of str
RECURSIVE sorted_strings(_)
sorted_strings(S) ==
    IF S = {} THEN <<>>
    ELSE LET m == CHOOSE x \in S : \A y \in S \ {x} : StrLess(x, y)
         IN  <<m>> \o sorted_strings(S \ {m})

\* The terminator left out.
pool_entry_bare(s) == utf8(s)

\* pool.extend(s.encode('utf-8')); pool.append(0)
pool_entry(s) == utf8(s) \o <<0>>

\* The pool after the first n strings
RECURSIVE strings_pool_upto(_, _)
strings_pool_upto(strings, n) ==
    IF n = 0 THEN <<>>
    ELSE strings_pool_upto(strings, n - 1) \o pool_entry(strings[n])

build_strings_pool(data) ==
    LET strings == sorted_strings(Range(data.manufacturers)
                                  \cup Range(data.rom_names)
                                  \cup {m.name : m \in Range(data.machines)})
        at(s) == CHOOSE i \in 1..Len(strings) : strings[i] = s
    IN  [pool |-> strings_pool_upto(strings, Len(strings)),
         offset_map |-> [s \in Range(strings) |->
                            Len(strings_pool_upto(strings, at(s) - 1))]]

\* if m['description']: a NULL and an empty blob have no bytes in the pool
desc_data(m) ==
    IF m.description = NULL THEN <<>> ELSE zlib_bytes(m.description[1])

\* The pool after the descriptions of the first n machines
RECURSIVE desc_pool_upto(_, _)
desc_pool_upto(machines, n) ==
    IF n = 0 THEN <<>>
    ELSE desc_pool_upto(machines, n - 1) \o desc_data(machines[n])

\* desc_info[new_id] = (offset, length), (0, 0) without description
build_descriptions_pool(data) ==
    [pool |-> desc_pool_upto(data.machines, Len(data.machines)),
     desc_info |-> [n \in 1..Len(data.machines) |->
                      IF desc_data(data.machines[n]) = <<>> THEN <<0, 0>>
                      ELSE <<Len(desc_pool_upto(data.machines, n - 1)),
                             Len(desc_data(data.machines[n]))>>]]

-----------------------------------------------------------------------------
(* generate_embedded_database.py: generate_binary *)

\* struct.pack('<I', value)[:3]: the low 24 bits
write_uint24(value) == value % Pow2(24)

\* string_offsets.get(name, 0)
name_off(string_offsets, name) ==
    IF name \in DOMAIN string_offsets THEN string_offsets[name] ELSE 0

\* The offsets with a machine entry counted without its year.
section_offsets_no_year(data, strings_pool, desc_pool, min_size_pow2, max_size_pow2) ==
    LET num_sizes == max_size_pow2 - min_size_pow2 + 1
        size_index_offset == HEADER_SIZE
        roms_offset == size_index_offset + num_sizes * 8
        machines_offset == roms_offset + Len(data.roms) * ROM_ENTRY_SIZE
        machine_roms_offset == machines_offset + Len(data.machines) * 18
        manufacturers_offset == machine_roms_offset + Len(data.machine_roms) * 9
        rom_names_offset == manufacturers_offset + Len(data.manufacturers) * 4
        strings_offset == rom_names_offset + Len(data.rom_names) * 4
        desc_offset == strings_offset + Len(strings_pool)
    IN  <<size_index_offset, roms_offset, machines_offset, machine_roms_offset,
          manufacturers_offset, rom_names_offset, strings_offset, desc_offset>>

\* The offsets of the header, from the counts.
section_offsets(data, strings_pool, desc_pool, min_size_pow2, max_size_pow2) ==
    LET num_sizes == max_size_pow2 - min_size_pow2 + 1
        size_index_offset == HEADER_SIZE
        roms_offset == size_index_offset + num_sizes * 8
        machines_offset == roms_offset + Len(data.roms) * ROM_ENTRY_SIZE
        machine_roms_offset == machines_offset + Len(data.machines) * 20
        manufacturers_offset == machine_roms_offset + Len(data.machine_roms) * 9
        rom_names_offset == manufacturers_offset + Len(data.manufacturers) * 4
        strings_offset == rom_names_offset + Len(data.rom_names) * 4
        desc_offset == strings_offset + Len(strings_pool)
    IN  <<size_index_offset, roms_offset, machines_offset, machine_roms_offset,
          manufacturers_offset, rom_names_offset, strings_offset, desc_offset>>

\* The start of every class taken from the start of the table of its own
\* class alone.
size_index_entry_local(entry) ==
    pack(0, 4) \o pack(entry[2] * ROM_ENTRY_SIZE, 4)

\* start_offset and end_offset of a class from its (start_idx, count)
size_index_entry(entry) ==
    pack(entry[1] * ROM_ENTRY_SIZE, 4)
        \o pack((entry[1] + entry[2]) * ROM_ENTRY_SIZE, 4)

\* The parts appended to output, in order: the header with its padding, the
\* size index, the five tables, the two pools.
blob_sections(data, strings_pool, string_offsets, desc_pool, desc_info, min_size_pow2, max_size_pow2) ==
    LET offsets == section_offsets(data, strings_pool, desc_pool,
                                   min_size_pow2, max_size_pow2)
        counts == <<Len(data.roms), Len(data.machines), Len(data.machine_roms),
                    Len(data.manufacturers), Len(data.rom_names)>>
        header == MAGIC \o pack(VERSION, 2)
                    \o pack(min_size_pow2, 1) \o pack(max_size_pow2, 1)
                    \o Concat([i \in 1..5 |-> pack(counts[i], 4)])
                    \o Concat([i \in 1..8 |-> pack(offsets[i], 4)])
        machine(n) ==
            LET m == data.machines[n]
            IN  pack(name_off(string_offsets, m.name), 4)
                  \o pack(desc_info[n][1], 4)
                  \o pack(desc_info[n][2], 2)
                  \o pack(write_uint24(m.cloneof_id), 3)
                  \o pack(write_uint24(m.romof_id), 3)
                  \o pack(m.year % Pow2(16), 2)
                  \o pack(m.manufacturer_id % Pow2(MANUF_ID_BITS), 2)
        machine_rom(i) ==
            LET mr == data.machine_roms[i]
            IN  pack(write_uint24(mr.machine_id), 3)
                  \o pack(write_uint24(mr.rom_id), 3)
                  \o pack(write_uint24(mr.name_id), 3)
    IN  <<header \o [i \in 1..(HEADER_SIZE - Len(header)) |-> 0],
          Concat([i \in 1..(max_size_pow2 - min_size_pow2 + 1) |->
                    size_index_entry(data.size_index[min_size_pow2 + i - 1])]),
          Concat([i \in 1..Len(data.roms) |->
                    data.roms[i].sha1 \o pack(write_uint24(data.roms[i].name_id), 3)]),
          Concat([n \in 1..Len(data.machines) |-> machine(n)]),
          Concat([i \in 1..Len(data.machine_roms) |-> machine_rom(i)]),
          Concat([n \in 1..Len(data.manufacturers) |->
                    pack(name_off(string_offsets, data.manufacturers[n]), 4)]),
          Concat([n \in 1..Len(data.rom_names) |->
                    pack(name_off(string_offsets, data.rom_names[n]), 4)]),
          strings_pool,
          desc_pool>>

\* The blob: its bytes, the parts they were appended in, and the fields of
\* its tables as a consumer reads them back.
generate_binary(data, strings_pool, string_offsets, desc_pool, desc_info, min_size_pow2, max_size_pow2) ==
    LET sections == blob_sections(data, strings_pool, string_offsets, desc_pool,
                                  desc_info, min_size_pow2, max_size_pow2)
    IN  [bytes |-> Concat(sections),
         sections |-> sections,
         min_size_pow2 |-> min_size_pow2,
         max_size_pow2 |-> max_size_pow2,
         roms_count |-> Len(data.roms),
         machines_count |-> Len(data.machines),
         machine_roms_count |-> Len(data.machine_roms),
         manufacturers_count |-> Len(data.manufacturers),
         rom_names_count |-> Len(data.rom_names),
         size_index |-> data.size_index,
         roms |-> [i \in 1..Len(data.roms) |->
                     [sha1 |-> data.roms[i].sha1,
                      name_id |-> write_uint24(data.roms[i].name_id)]],
         machines |-> [i \in 1..Len(data.machines) |->
                         [name |-> data.machines[i].name,
                          description |-> data.machines[i].description,
                          cloneof_id |-> write_uint24(data.machines[i].cloneof_id),
                          romof_id |-> write_uint24(data.machines[i].romof_id),
                          year |-> data.machines[i].year % Pow2(16),
                          manufacturer_id |-> data.machines[i].manufacturer_id
                                                  % Pow2(MANUF_ID_BITS)]],
         machine_roms |-> [i \in 1..Len(data.machine_roms) |->
                             [machine_id |-> write_uint24(data.machine_roms[i].machine_id),
                              rom_id |-> write_uint24(data.machine_roms[i].rom_id),
                              name_id |-> write_uint24(data.machine_roms[i].name_id)]],
         manufacturers |-> data.manufacturers,
         rom_names |-> data.rom_names]

NoOut == [status |-> "none"]

\* No consumer routine has been called.
NoCall == [fn |-> "none"]

\* main() of the generator on the catalogue file: the blob is written after
\* every stage has returned, so an exception leaves no blob.
generated(d, min_size_pow2, max_size_pow2, tie) ==
    LET loaded == load_database(d, min_size_pow2, max_size_pow2, tie)
        data == remap_ids(loaded, min_size_pow2, max_size_pow2)
        strings == build_strings_pool(data)
        descs == build_descriptions_pool(data)
    IN  IF data.ok
        THEN [status |-> "written", data |-> data,
              blob |-> generate_binary(data, strings.pool, strings.offset_map,
                                       descs.pool, descs.desc_info,
                                       min_size_pow2, max_size_pow2)]
        ELSE [status |-> "error", min_size_pow2 |-> min_size_pow2,
              max_size_pow2 |-> max_size_pow2, tie |-> tie]

-----------------------------------------------------------------------------
(* The inputs: documents found, and the <machine> elements they hold *)

dat(stem) == stem \o <<".", "d", "a", "t">>

MAME_DAT == dat(mame)
MESS_DAT == dat(mess)
HBMAME_DAT == dat(<<"h", "b">> \o mame)
ARCADE_DAT == dat(<<"a", "r", "c", "a", "d", "e">>)

Rom(name, size, crc, sha1) ==
    [name |-> name, size |-> size, crc |-> crc, sha1 |-> sha1]

Machine(name, parents, meta, rs) ==
    [name |-> name, cloneof |-> parents[1], romof |-> parents[2],
     description |-> meta[1], year |-> meta[2], manufacturer |-> meta[3],
     roms |-> rs]

NoMeta == <<None, None, None>>
MetaX == <<<<"d">>, <<"1", "9", "8", "0">>, <<"X">>>>
MetaSNK == <<None, <<"1", "9", "9", "0">>, SNK>>
\* A manufacturer that bears the name of a machine and of a ROM file.
MetaA == <<<<"d", "e">>, None, <<"a">>>>

\* <year> texts: absent, empty, a year, a year with a suffix, no number, a
\* negative number.
YearTexts ==
    {None, <<>>, <<"1", "9", "8", "0">>, <<"1", "9", "8", "0", "-", "8", "1">>,
     <<"1", "9", "x", "x">>, <<"-", "5">>}

S256 == <<"2", "5", "6">>
S512 == <<"5", "1", "2">>
CRC_A == <<"0", "a">>
CRC_B == <<"0", "b">>
R1 == <<"r", "1">>
R2 == <<"r", "2">>
\* A sha1 attribute of full length that repeats one hexadecimal digit.
Digest(c) == [i \in 1..(2 * SHA1_BYTES) |-> c]

AA == Digest("a")
BB == Digest("b")

RomA == Rom(R1, S256, CRC_A, AA)
RomA_upper == Rom(R2, S512, None, Digest("A"))
RomA_other == Rom(R2, S512, CRC_B, AA)
RomB == Rom(R1, S256, CRC_A, BB)

BadSizes ==
    {None, <<>>, <<"0">>, <<"1", "0", "0">>, <<"7", "6", "8">>, <<"1", "k">>,
     <<"-", "2", "5", "6">>, <<"1", "6", "7", "7", "7", "2", "1", "6">>}

BadSha1s == {None, <<>>, <<"a">>, <<"a", "a", "b", "b">>, <<"z", "z">>}

RomLists(fx) ==
    IF fx = "roms"
    THEN {<<>>}
         \cup {<<r>> : r \in {RomA, RomA_upper, RomA_other, RomB}}
         \cup {<<Rom(R1, sz, CRC_A, AA)>> : sz \in BadSizes}
         \cup {<<Rom(R1, S256, CRC_A, h)>> : h \in BadSha1s}
         \cup {<<RomA, r>> : r \in {RomA, RomA_upper, RomA_other, RomB,
                                     Rom(R1, S256, CRC_A, <<"z", "z">>)}}
         \cup {<<Rom(R1, <<"1", "0", "0">>, CRC_A, BB), RomA>>}
    ELSE IF fx = "parents"
    THEN {<<RomA>>, <<RomA, RomA>>, <<Rom(R2, S256, CRC_A, AA), RomB>>, <<RomB>>}
    ELSE IF fx = "bios"
    THEN {<<RomA>>, <<RomA, RomA>>, <<Rom(R2, S256, CRC_A, AA), RomB>>}
    ELSE IF fx = "gen"
    THEN {<<RomB, RomA, RomA>>, <<Rom(R2, S256, None, Digest("A"))>>,
          <<Rom(R1, S256, CRC_A, Digest("c")), RomA>>,
          <<Rom(R2, S512, CRC_B, Digest("d"))>>}
    ELSE IF fx = "pool"
    THEN {<<Rom(<<>>, S256, CRC_A, AA)>>,
          <<Rom(R1, S256, CRC_A, BB), Rom(<<"a">>, S512, CRC_B, Digest("c"))>>}
    ELSE IF fx = "year"
    THEN {<<RomA>>}
    ELSE {<<RomA>>, <<RomB>>}

MachineHeads(fx) ==
    IF fx = "roms"
    THEN {<<<<>>, NoMeta>>, <<<<"a">>, NoMeta>>, <<<<"a">>, MetaX>>,
          <<<<"b">>, NoMeta>>}
    ELSE IF fx = "parents"
    THEN {<<<<"a">>, NoMeta>>, <<<<"b">>, MetaX>>}
    ELSE IF fx = "bios"
    THEN {<<<<"a">>, NoMeta>>, <<<<"b">>, MetaX>>, <<<<"c">>, NoMeta>>,
          <<neogeo_bios, NoMeta>>}
    ELSE IF fx = "gen"
    THEN {<<<<"a">>, MetaX>>, <<<<"b">>, MetaSNK>>}
    ELSE IF fx = "pool"
    THEN {<<R1, MetaX>>, <<<<"a">>, MetaA>>}
    ELSE IF fx = "year"
    THEN {<<<<"a">>, <<None, y, None>>>> : y \in YearTexts}
         \cup {<<<<"b">>, MetaX>>}
    ELSE {<<<<"a">>, NoMeta>>, <<<<"b">>, MetaX>>}

Parents(fx) ==
    IF fx = "parents"
    THEN {<<None, None>>, <<<<"a">>, <<"a">>>>, <<<<"b">>, None>>,
          <<None, <<"b">>>>}
    ELSE IF fx = "gen"
    THEN {<<None, None>>, <<<<"b">>, <<"b">>>>}
    ELSE {<<None, None>>}

Elems(fx) ==
    {Machine(h[1], p, h[2], rs) :
        h \in MachineHeads(fx), p \in Parents(fx), rs \in RomLists(fx)}

Fixtures == {"roms", "parents", "order", "bios", "gen", "pool", "year"}

\* The size bands given to the generator: --min-size and --max-size, the last
\* being the defaults.
SizeBands == {<<8, 9>>, <<9, 9>>, <<11, 23>>}

\* Most <machine> elements read in a run of the family: the shared-BIOS
\* family needs one machine more than the threshold.
ElemBound(fx) == IF fx = "bios" THEN MaxElems + 1 ELSE MaxElems

Modes(fx) ==
    IF fx = "roms" THEN {"dat_file", "add_dat"}
    ELSE IF fx \in {"bios", "gen", "pool", "year"} THEN {"dat_file"}
    ELSE IF fx = "parents" THEN {"dat_file", "download", "add_dat"}
    ELSE {"no_download", "download"}

\* The documents a run finds, in the order the file system or the archive
\* lists them.
Found(fx, m) ==
    IF m \in {"dat_file", "add_dat"} THEN {<<MAME_DAT>>}
    ELSE IF fx = "parents" THEN {<<MESS_DAT, MAME_DAT>>}
    ELSE LET files == {MAME_DAT, MESS_DAT, HBMAME_DAT, ARCADE_DAT}
         IN  {<<f>> : f \in files}
             \cup {<<p[1], p[2]>> : p \in {q \in files \X files : q[1] # q[2]}}

-----------------------------------------------------------------------------
(* The build script as a state machine *)

Init ==
    /\ pc = "start"
    /\ mode = "none"
    /\ dat_files = <<>>
    /\ doc = 0
    /\ db = EmptyDb
    /\ disk = EmptyDb
    /\ manufacturers_cache = EmptyCache
    /\ rom_names_cache = EmptyCache
    /\ roms_cache = EmptyCache
    /\ existing_machines = {}
    /\ machine_id = 0
    /\ machines_data = <<>>
    /\ machine_roms_data = <<>>
    /\ machines_skipped = 0
    /\ elem = BlankElem
    /\ machine_attrs = BlankAttrs
    /\ roms = <<>>
    /\ nelems = 0
    /\ fixture \in Fixtures
    /\ out = NoOut
    /\ call = NoCall

\* The process ends: its memory is gone, and the catalogue is what the file
\* holds.
Exit(to, file) ==
    /\ pc' = to
    /\ db' = file
    /\ manufacturers_cache' = EmptyCache
    /\ rom_names_cache' = EmptyCache
    /\ roms_cache' = EmptyCache
    /\ existing_machines' = {}
    /\ machine_id' = 0
    /\ machines_data' = <<>>
    /\ machine_roms_data' = <<>>
    /\ machines_skipped' = 0
    /\ elem' = BlankElem
    /\ machine_attrs' = BlankAttrs
    /\ roms' = <<>>

\* main() up to the first "for event, elem in context": a full build creates
\* an empty catalogue, --add-dat opens the existing one and loads the caches.
main ==
    \E m \in Modes(fixture) : \E found \in Found(fixture, m) :
        /\ IF m = "add_dat" THEN pc \in {"done", "aborted"} ELSE pc = "start"
        /\ mode' = m
        /\ dat_files' = processing_order(m, found)
        /\ doc' = 1
        /\ IF m = "add_dat"
           THEN /\ db' = disk
                /\ disk' = disk
                /\ manufacturers_cache' = load_manufacturers_cache(disk)
                /\ rom_names_cache' = load_rom_names_cache(disk)
                /\ roms_cache' = load_roms_cache(disk)
                /\ existing_machines' = load_existing_machines(disk)
                /\ machine_id' = max_machine_id(disk)
           ELSE /\ db' = EmptyDb
                /\ disk' = EmptyDb
                /\ manufacturers_cache' = EmptyCache
                /\ rom_names_cache' = EmptyCache
                /\ roms_cache' = EmptyCache
                /\ existing_machines' = {}
                /\ machine_id' = 0
        /\ machines_data' = <<>>
        /\ machine_roms_data' = <<>>
        /\ machines_skipped' = 0
        /\ pc' = "iter"
        /\ UNCHANGED <<elem, machine_attrs, roms, nelems, fixture, out, call>>

\* The parser yields the next <machine> or <game>; parse_machine(elem).
parse_machine ==
    /\ pc = "iter"
    /\ nelems < ElemBound(fixture)
    /\ \E e \in Elems(fixture) :
        /\ elem' = e
        /\ machine_attrs' = parse_attrs(e)
        /\ roms' = parse_roms(e)
    /\ nelems' = nelems + 1
    /\ pc' = "elem"
    /\ UNCHANGED <<mode, dat_files, doc, db, disk, manufacturers_cache,
                   rom_names_cache, roms_cache, existing_machines, machine_id,
                   machines_data, machine_roms_data, machines_skipped,
                   fixture, out, call>>

\* The body of the loop for the parsed element.
process_machine ==
    /\ pc = "elem"
    /\ IF roms = <<>> \/ ~Truthy(machine_attrs.name)
       THEN \* no valid ROM or no name: elem.clear(); continue
            /\ pc' = "iter"
            /\ UNCHANGED <<db, manufacturers_cache, rom_names_cache, roms_cache,
                           existing_machines, machine_id, machines_data,
                           machine_roms_data, machines_skipped>>
            /\ elem' = BlankElem /\ machine_attrs' = BlankAttrs /\ roms' = <<>>
       ELSE IF is_existing_machine(machine_attrs.name, existing_machines)
       THEN \* first file wins: elem.clear(); continue
            /\ pc' = "iter"
            /\ machines_skipped' = machines_skipped + 1
            /\ UNCHANGED <<db, manufacturers_cache, rom_names_cache, roms_cache,
                           existing_machines, machine_id, machines_data,
                           machine_roms_data>>
            /\ elem' = BlankElem /\ machine_attrs' = BlankAttrs /\ roms' = <<>>
       ELSE LET mid == machine_id + 1
                manuf == intern_manufacturer(machine_attrs.manufacturer, db,
                                             manufacturers_cache)
                desc_blob == IF Truthy(machine_attrs.description)
                             THEN Some(compress(machine_attrs.description))
                             ELSE NULL
                data == [id |-> mid, name |-> machine_attrs.name,
                         cloneof |-> machine_attrs.cloneof,
                         romof |-> machine_attrs.romof,
                         description |-> desc_blob,
                         year |-> machine_attrs.year,
                         manufacturer_id |-> manuf.id]
                s == process_roms(roms, mid,
                        [db |-> manuf.db, rom_names_cache |-> rom_names_cache,
                         roms_cache |-> roms_cache,
                         machine_roms_data |-> machine_roms_data, ok |-> TRUE])
            IN  IF s.ok
                THEN /\ pc' = "iter"
                     /\ db' = s.db
                     /\ manufacturers_cache' = manuf.cache
                     /\ rom_names_cache' = s.rom_names_cache
                     /\ roms_cache' = s.roms_cache
                     /\ existing_machines' = existing_machines \cup {machine_attrs.name}
                     /\ machine_id' = mid
                     /\ machines_data' = Append(machines_data, data)
                     /\ machine_roms_data' = s.machine_roms_data
                     /\ machines_skipped' = machines_skipped
                     /\ elem' = BlankElem /\ machine_attrs' = BlankAttrs /\ roms' = <<>>
                ELSE \* uncaught exception: the open transaction is lost
                     Exit("aborted", disk)
    /\ UNCHANGED <<mode, dat_files, doc, disk, nelems, fixture, out, call>>

\* The document is malformed: the parser raises and nothing catches it.
parse_error ==
    /\ pc = "iter"
    /\ Exit("aborted", disk)
    /\ UNCHANGED <<mode, dat_files, doc, disk, nelems, fixture, out, call>>

\* End of the document: resolve cloneof/romof, insert the machines and the
\* machine_roms rows, commit; then the next document or the post-processing.
finish_dat ==
    /\ pc = "iter"
    /\ IF \A m \in Range(machines_data) : year_check(m.year)
       THEN LET d == [db EXCEPT
                        !.machines = @ \cup resolved_machines(db, machines_data),
                        !.machine_roms = @ \o machine_roms_data]
            IN  /\ db' = d
                /\ disk' = d
                /\ machines_data' = <<>>
                /\ machine_roms_data' = <<>>
                /\ machines_skipped' = 0
                /\ IF doc < Len(dat_files)
                   THEN doc' = doc + 1 /\ pc' = "iter"
                   ELSE doc' = doc
                        /\ pc' = IF mode = "add_dat" THEN "cleanup" ELSE "extract"
                /\ UNCHANGED <<manufacturers_cache, rom_names_cache, roms_cache,
                               existing_machines, machine_id, elem, machine_attrs,
                               roms>>
       ELSE \* sqlite3.IntegrityError: CHECK constraint failed
            Exit("aborted", disk) /\ UNCHANGED <<doc, disk>>
    /\ UNCHANGED <<mode, dat_files, nelems, fixture, out, call>>

\* extract_neogeo_bios(conn)
extract ==
    /\ pc = "extract"
    /\ db' = extract_neogeo_bios(db)
    /\ disk' = db'
    /\ pc' = "cleanup"
    /\ UNCHANGED <<mode, dat_files, doc, manufacturers_cache, rom_names_cache,
                   roms_cache, existing_machines, machine_id, machines_data,
                   machine_roms_data, machines_skipped, elem, machine_attrs,
                   roms, nelems, fixture, out, call>>

\* cleanup_orphans(conn), then the process ends.
cleanup ==
    /\ pc = "cleanup"
    /\ disk' = cleanup_orphans(db)
    /\ Exit("done", cleanup_orphans(db))
    /\ UNCHANGED <<mode, dat_files, doc, nelems, fixture, out, call>>

\* generate_embedded_database.py runs on the catalogue file a build left,
\* with the size band of its command line.
generate ==
    /\ pc \in {"done", "aborted"}
    /\ \E band \in SizeBands : \E tie \in Ties :
          out' = generated(disk, band[1], band[2], tie)
    /\ pc' = "generated"
    /\ UNCHANGED <<mode, dat_files, doc, db, disk, manufacturers_cache,
                   rom_names_cache, roms_cache, existing_machines, machine_id,
                   machines_data, machine_roms_data, machines_skipped, elem,
                   machine_attrs, roms, nelems, fixture, call>>

Next ==
    \/ main
    \/ parse_machine
    \/ process_machine
    \/ parse_error
    \/ finish_dat
    \/ extract
    \/ cleanup
    \/ generate

Spec == Init /\ [][Next]_vars

-----------------------------------------------------------------------------
(* generate_embedded_database.py, the generated C header: the lookup       *)
(* routines of the consumer.  A pointer into the blob is its distance in   *)
(* bytes from its start; the routines read the blob through the header, as the C  *)
(* code does.                                                              *)

\* return NULL
NULL_PTR == -1

MRDB_MACHINE_ROM_ENTRY_SIZE == 9

\* The n bytes at ptr
mem(blob, ptr, n) == SubSeq(blob, ptr + 1, ptr + n)

MRDB_READ_UINT24(blob, ptr) == unpack(mem(blob, ptr, 3))

\* size_pow2 is a uint8_t: the shift stays within 32 bits.
MRDB_MAKE_ROM_ID(size_pow2, index) == BitOr(size_pow2 * Pow2(16), index)

\* The fields of the packed MrdbHeader the lookups read
mrdb_get_header(blob) ==
    [min_size_pow2 |-> unpack(mem(blob, 6, 1)),
     max_size_pow2 |-> unpack(mem(blob, 7, 1)),
     machine_roms_count |-> unpack(mem(blob, 16, 4)),
     size_index_offset |-> unpack(mem(blob, 28, 4)),
     roms_offset |-> unpack(mem(blob, 32, 4)),
     machine_roms_offset |-> unpack(mem(blob, 40, 4))]

\* mrdb_get_size_index(db)[idx], hdr being mrdb_get_header(db)
mrdb_get_size_index(blob, hdr, idx) ==
    LET entry == hdr.size_index_offset + 8 * idx
    IN  [start_offset |-> unpack(mem(blob, entry, 4)),
         end_offset |-> unpack(mem(blob, entry + 4, 4))]

\* memcmp of two blocks of one length: negative, zero or positive
memcmp(a, b) == IF BytesLess(a, b) THEN -1 ELSE IF BytesLess(b, a) THEN 1 ELSE 0

\* The search started on the whole ROM table instead of the class.
find_rom_range_table(blob, hdr, size_pow2) ==
    LET roms_end == unpack(mem(blob, 36, 4))
    IN  IF size_pow2 < hdr.min_size_pow2 \/ size_pow2 > hdr.max_size_pow2
        THEN [null |-> TRUE, left |-> NULL_PTR, right |-> NULL_PTR]
        ELSE IF hdr.roms_offset >= roms_end
        THEN [null |-> TRUE, left |-> NULL_PTR, right |-> NULL_PTR]
        ELSE [null |-> FALSE, left |-> hdr.roms_offset,
              right |-> roms_end - ROM_ENTRY_SIZE]

\* mrdb_find_rom_by_sha1 up to its loop: the range check, the size index
\* entry, the empty range check, and the first and last entry of the class.
find_rom_range(blob, hdr, size_pow2) ==
    LET size_index_entry_at ==
            mrdb_get_size_index(blob, hdr, size_pow2 - hdr.min_size_pow2)
        roms_base == hdr.roms_offset
    IN  IF size_pow2 < hdr.min_size_pow2 \/ size_pow2 > hdr.max_size_pow2
        THEN [null |-> TRUE, left |-> NULL_PTR, right |-> NULL_PTR]
        ELSE IF size_index_entry_at.start_offset >= size_index_entry_at.end_offset
        THEN [null |-> TRUE, left |-> NULL_PTR, right |-> NULL_PTR]
        ELSE [null |-> FALSE,
              left |-> roms_base + size_index_entry_at.start_offset,
              right |-> roms_base + size_index_entry_at.end_offset - ROM_ENTRY_SIZE]

\* One pass of "while (left <= right)" of mrdb_find_rom_by_sha1
find_rom_step(blob, roms_base, sha1, left, right) ==
    LET left_idx == (left - roms_base) \div ROM_ENTRY_SIZE
        right_idx == (right - roms_base) \div ROM_ENTRY_SIZE
        mid_idx == left_idx + (right_idx - left_idx) \div 2
        mid == roms_base + mid_idx * ROM_ENTRY_SIZE
        cmp == memcmp(mem(blob, mid, SHA1_BYTES), sha1)
    IN  [mid |-> mid, found |-> cmp = 0,
         left |-> IF cmp < 0 THEN mid + ROM_ENTRY_SIZE ELSE left,
         right |-> IF cmp > 0 THEN mid - ROM_ENTRY_SIZE ELSE right]

\* The search that keeps the last matching row it met and goes on to the
\* right of it.
find_first_step_last(blob, base, rom_id, left, right, result) ==
    LET mid == left + (right - left) \div 2
        mid_rom_id == MRDB_READ_UINT24(blob, base + mid * MRDB_MACHINE_ROM_ENTRY_SIZE + 3)
    IN  IF mid_rom_id > rom_id
        THEN [left |-> left, right |-> mid, result |-> result]
        ELSE [left |-> mid + 1, right |-> right,
              result |-> IF mid_rom_id = rom_id THEN mid ELSE result]

\* One pass of "while (left < right)" of mrdb_find_first_machine_rom
find_first_step(blob, base, rom_id, left, right, result) ==
    LET mid == left + (right - left) \div 2
        mid_rom_id == MRDB_READ_UINT24(blob, base + mid * MRDB_MACHINE_ROM_ENTRY_SIZE + 3)
    IN  IF mid_rom_id >= rom_id
        THEN [left |-> left, right |-> mid,
              result |-> IF mid_rom_id = rom_id THEN mid ELSE result]
        ELSE [left |-> mid + 1, right |-> right, result |-> result]

\* rom_id of mrdb_get_machines_for_rom, from the pointer to the ROM entry
rom_id_of(blob, hdr, rom, size_pow2) ==
    LET size_offset ==
            mrdb_get_size_index(blob, hdr, size_pow2 - hdr.min_size_pow2).start_offset
        rom_index_c == (rom - hdr.roms_offset - size_offset) \div ROM_ENTRY_SIZE
    IN  MRDB_MAKE_ROM_ID(size_pow2, rom_index_c)

-----------------------------------------------------------------------------
(* The calls the consumer is checked on *)

\* Most rows of a machine_roms table handed to the consumer.
MaxRows == 3

\* The size band of the blobs handed to the consumer.
CallMin == 8
CallMax == 9

\* A digest of SHA1_BYTES bytes for every v.
Sha(v) == [i \in 1..SHA1_BYTES |-> IF i = SHA1_BYTES THEN v ELSE 6 - v]

\* The digests a ROM table may hold, and those looked up.
StoredShas == {Sha(1), Sha(3), Sha(5)}
QueriedShas == {Sha(v) : v \in 0..6}

\* The ROMs of one class: strictly ascending by SHA-1.
ClassRoms(size_pow2) ==
    LET seqs == UNION {[1..n -> StoredShas] : n \in 0..Cardinality(StoredShas)}
        ascending == {s \in seqs : \A i \in 1..(Len(s) - 1) : BytesLess(s[i], s[i + 1])}
    IN  {[i \in 1..Len(s) |-> [sha1 |-> s[i], size_pow2 |-> size_pow2]] : s \in ascending}

\* The remapped tables of a catalogue with these ROMs and machine_roms rows
CallData(rs, rows) ==
    [roms |-> [i \in 1..Len(rs) |->
                 [sha1 |-> rs[i].sha1, size_pow2 |-> rs[i].size_pow2,
                  new_id |-> make_rom_id_unchecked(rs[i].size_pow2, rom_index(rs, i)).id,
                  name_id |-> i - 1]],
     machines |-> <<>>,
     machine_roms |-> rows,
     manufacturers |-> <<>>,
     rom_names |-> <<>>,
     size_index |-> size_index(rs, CallMin, CallMax)]

\* The bytes generate_binary makes of the tables
CallBlob(data) ==
    LET strings == build_strings_pool(data)
        descs == build_descriptions_pool(data)
    IN  generate_binary(data, strings.pool, strings.offset_map, descs.pool,
                        descs.desc_info, CallMin, CallMax).bytes

\* The ROM tables of the lookups by digest
RomTables == {a \o b : a \in ClassRoms(CallMin), b \in ClassRoms(CallMax)}

\* The ROM table of the lookups by ROM: two ROMs in one class, one in the
\* other.
WalkRoms ==
    <<[sha1 |-> Sha(1), size_pow2 |-> CallMin], [sha1 |-> Sha(3), size_pow2 |-> CallMin],
      [sha1 |-> Sha(5), size_pow2 |-> CallMax]>>

\* The machine_roms tables: any rows over the ids of WalkRoms and two
\* machines, sorted by (rom_id, machine_id); row i carries name id i - 1.
MachineRomTables ==
    LET ids == {r.new_id : r \in Range(CallData(WalkRoms, <<>>).roms)}
        keys == ids \X {0, 1}
        seqs == UNION {[1..n -> keys] : n \in 0..MaxRows}
        in_order == {s \in seqs : \A i \in 1..(Len(s) - 1) :
                      s[i] = s[i + 1] \/ BytesLess(s[i], s[i + 1])}
    IN  {[i \in 1..Len(s) |->
            [machine_id |-> s[i][2], rom_id |-> s[i][1], name_id |-> i - 1]] :
         s \in in_order}

\* A slot of the results array the routine has not written.
Unwritten == [machine_id |-> NULL_PTR, rom_name_id |-> NULL_PTR]

\* The fields of a call; a routine uses those it needs.
Call(fn, data, args) ==
    [fn |-> fn, pc |-> fn, data |-> data, blob |-> CallBlob(data),
     size_pow2 |-> args.size_pow2, sha1 |-> args.sha1, rom |-> args.rom,
     max_results |-> args.max_results, has_results |-> args.has_results,
     results |-> [i \in 1..args.max_results |-> Unwritten],
     rom_id |-> 0, left |-> 0, right |-> 0, result |-> 0, ptr |-> 0,
     count |-> 0, inspected |-> {}, ret |-> 0]

\* The offset of the ROM table in a blob of the band: the header and the
\* size index come before it.
RomsOffset == HEADER_SIZE + 8 * (CallMax - CallMin + 1)

FindRomCalls ==
    {Call("find_rom", CallData(rs, <<>>),
          [size_pow2 |-> k, sha1 |-> sha, rom |-> NULL_PTR, max_results |-> 0,
           has_results |-> FALSE]) :
        rs \in RomTables, k \in (CallMin - 1)..(CallMax + 1), sha \in QueriedShas}

GetMachinesCalls ==
    {Call("get_machines", CallData(WalkRoms, rows),
          [size_pow2 |-> WalkRoms[j].size_pow2, sha1 |-> WalkRoms[j].sha1,
           rom |-> RomsOffset + (j - 1) * ROM_ENTRY_SIZE, max_results |-> n,
           has_results |-> n > 0 /\ given]) :
        rows \in MachineRomTables, j \in 1..Len(WalkRoms),
        n \in {0, 1, MaxRows + 1}, given \in BOOLEAN}

-----------------------------------------------------------------------------
(* The consumer as a state machine: one pass of a loop is one step *)

InitC ==
    /\ pc = "consumer"
    /\ mode = "none"
    /\ dat_files = <<>>
    /\ doc = 0
    /\ db = EmptyDb
    /\ disk = EmptyDb
    /\ manufacturers_cache = EmptyCache
    /\ rom_names_cache = EmptyCache
    /\ roms_cache = EmptyCache
    /\ existing_machines = {}
    /\ machine_id = 0
    /\ machines_data = <<>>
    /\ machine_roms_data = <<>>
    /\ machines_skipped = 0
    /\ elem = BlankElem
    /\ machine_attrs = BlankAttrs
    /\ roms = <<>>
    /\ nelems = 0
    /\ fixture = "consumer"
    /\ out = NoOut
    /\ call \in FindRomCalls \cup GetMachinesCalls

build_vars == <<pc, mode, dat_files, doc, db, disk, manufacturers_cache,
                rom_names_cache, roms_cache, existing_machines, machine_id,
                machines_data, machine_roms_data, machines_skipped, elem,
                machine_attrs, roms, nelems, fixture, out>>

\* mrdb_find_rom_by_sha1(db, size_pow2, sha1) up to its loop
mrdb_find_rom_by_sha1 ==
    /\ call.pc = "find_rom"
    /\ \E range \in {find_rom_range(call.blob, mrdb_get_header(call.blob),
                                     call.size_pow2)} :
          call' = IF range.null
                  THEN [call EXCEPT !.pc = "returned", !.ret = NULL_PTR]
                  ELSE [call EXCEPT !.pc = "find_rom_loop",
                                    !.left = range.left, !.right = range.right]
    /\ UNCHANGED build_vars

\* while (left <= right) { ... } return NULL
find_rom_loop ==
    /\ call.pc = "find_rom_loop"
    /\ IF call.left <= call.right
       THEN \E roms_base \in {mrdb_get_header(call.blob).roms_offset} :
            \E s \in {find_rom_step(call.blob, roms_base, call.sha1, call.left,
                                    call.right)} :
               call' = [call EXCEPT !.inspected = @ \cup {s.mid},
                                    !.left = s.left, !.right = s.right,
                                    !.pc = IF s.found THEN "returned" ELSE @,
                                    !.ret = IF s.found THEN s.mid ELSE @]
       ELSE call' = [call EXCEPT !.pc = "returned", !.ret = NULL_PTR]
    /\ UNCHANGED build_vars

\* mrdb_get_machines_for_rom(db, rom, size_pow2, results, max_results) up
\* to the call of mrdb_find_first_machine_rom, and that routine up to its
\* loop
mrdb_get_machines_for_rom ==
    /\ call.pc = "get_machines"
    /\ \E hdr \in {mrdb_get_header(call.blob)} :
          call' = [call EXCEPT !.rom_id = rom_id_of(call.blob, hdr, call.rom,
                                                    call.size_pow2),
                               !.left = 0,
                               !.right = hdr.machine_roms_count,
                               !.result = hdr.machine_roms_count,
                               !.pc = "find_first_loop"]
    /\ UNCHANGED build_vars

\* while (left < right) { ... } of mrdb_find_first_machine_rom, its return,
\* and "if (!mr) return 0" of the caller
mrdb_find_first_machine_rom ==
    /\ call.pc = "find_first_loop"
    /\ \E hdr \in {mrdb_get_header(call.blob)} :
          IF call.left < call.right
          THEN \E s \in {find_first_step(call.blob, hdr.machine_roms_offset,
                                         call.rom_id, call.left, call.right,
                                         call.result)} :
                  call' = [call EXCEPT !.left = s.left, !.right = s.right,
                                       !.result = s.result]
          ELSE IF call.result >= hdr.machine_roms_count
          THEN call' = [call EXCEPT !.pc = "returned", !.ret = 0]
          ELSE call' = [call EXCEPT
                          !.pc = "walk",
                          !.ptr = hdr.machine_roms_offset
                                    + call.result * MRDB_MACHINE_ROM_ENTRY_SIZE,
                          !.count = 0]
    /\ UNCHANGED build_vars

\* while (ptr < end) { ... } return count
walk ==
    /\ call.pc = "walk"
    /\ \E hdr \in {mrdb_get_header(call.blob)} :
          LET end == hdr.machine_roms_offset
                       + hdr.machine_roms_count * MRDB_MACHINE_ROM_ENTRY_SIZE
          IN  IF call.ptr < end /\ MRDB_READ_UINT24(call.blob, call.ptr + 3) = call.rom_id
              THEN call' = [call EXCEPT
                              !.results =
                                  IF call.count < call.max_results /\ call.has_results
                                  THEN [@ EXCEPT ![call.count + 1] =
                                          [machine_id |->
                                               MRDB_READ_UINT24(call.blob, call.ptr),
                                           rom_name_id |->
                                               MRDB_READ_UINT24(call.blob, call.ptr + 6)]]
                                  ELSE @,
                              !.count = @ + 1,
                              !.ptr = @ + MRDB_MACHINE_ROM_ENTRY_SIZE]
              ELSE call' = [call EXCEPT !.pc = "returned", !.ret = call.count]
    /\ UNCHANGED build_vars

NextC ==
    \/ mrdb_find_rom_by_sha1
    \/ find_rom_loop
    \/ mrdb_get_machines_for_rom
    \/ mrdb_find_first_machine_rom
    \/ walk

\* The routines run to their end: nothing else is scheduled in a call.
SpecConsumer == InitC /\ [][NextC]_vars /\ WF_vars(NextC)

-----------------------------------------------------------------------------
(* The claims.  What the specification calls valid is stated here on the   *)
(* raw element, independently of the code's filter.                        *)

\* The machines of the catalogue, inserted or still buffered.
KnownNames ==
    {m.name : m \in db.machines} \cup {m.name : m \in Range(machines_data)}

\* A size attribute that is a positive power of two within the limits.
SpecValidSize(size_str) ==
    /\ Truthy(size_str)
    /\ LET n == int(size_str)
       IN  /\ n.ok
           /\ n.val > 0
           /\ n.val >= MIN_ROM_SIZE
           /\ n.val <= MAX_ROM_SIZE
           /\ \E k \in 0..log2(MAX_ROM_SIZE) : Pow2(k) = n.val

\* A sha1 attribute that is present and is exactly one digest in hexadecimal.
SpecValidSha1(sha1) ==
    Truthy(sha1) /\ Len(sha1) = 2 * SHA1_BYTES /\ IsHex(sha1)

SpecSurvives(rom_elem) ==
    SpecValidSize(rom_elem.size) /\ SpecValidSha1(rom_elem.sha1)

\* The machine_roms rows the step appends to the buffer.
RowsAdded == Len(machine_roms_data') - Len(machine_roms_data)

\* C1: once a machine name is in the catalogue, a later definition of that
\* name changes neither the tables nor the buffered machines and rows nor the
\* machine id counter, and no two machines of the catalogue share a name.
C1_UniqueNames ==
    /\ \A m, n \in db.machines : m.name = n.name => m.id = n.id
    /\ \A i, j \in 1..Len(machines_data) :
          machines_data[i].name = machines_data[j].name => i = j
    /\ \A m \in db.machines : \A i \in 1..Len(machines_data) :
          machines_data[i].name # m.name

C1_FirstIngestWins ==
    /\ []C1_UniqueNames
    /\ [][(pc = "elem" /\ machine_attrs.name \in KnownNames)
            => /\ pc' = "iter"
               /\ db' = db
               /\ machines_data' = machines_data
               /\ machine_roms_data' = machine_roms_data
               /\ machine_id' = machine_id]_vars

\* A duplicate definition has been skipped in a document after the first.
C1_Witness == pc = "iter" /\ machines_skipped > 0 /\ doc = 2

\* C2: no two Rom records hold the same digest.
C2_RomsUniqueBySha1 ==
    \A r, q \in db.roms : r.sha1 = q.sha1 => r.id = q.id

\* C3: a ROM whose digest is already in the catalogue gets no new Rom record,
\* and the records present stay as they are.
C3_InternHitKeepsRecord ==
    [][pc = "elem"
        => /\ \A r \in db'.roms \ db.roms : \A q \in db.roms : q.sha1 # r.sha1
           /\ pc' = "iter" => db.roms \subseteq db'.roms]_vars

\* C4: a <rom> whose sha1 is missing or is not one digest in hexadecimal
\* yields no Rom and no machine_roms row, and the build goes on.
C4_BadSha1Dropped ==
    [][pc = "elem"
        => /\ pc' # "aborted"
           /\ \A r \in db'.roms \ db.roms :
                \E i \in 1..Len(elem.roms) :
                    /\ SpecValidSha1(elem.roms[i].sha1)
                    /\ fromhex(elem.roms[i].sha1).bytes = r.sha1
           /\ pc' = "iter" =>
                RowsAdded <= Cardinality({i \in 1..Len(elem.roms) :
                                            SpecValidSha1(elem.roms[i].sha1)})]_vars

\* C5: every Rom has 2^size_pow2 within the limits; a new Rom has 2^size_pow2
\* equal to the size attribute of the first <rom> of the element that carries
\* its sha1 text and a valid size; a <rom> without a valid size yields no
\* machine_roms row.
C5_SizeInBand ==
    \A r \in db.roms :
        Pow2(r.size_pow2) >= MIN_ROM_SIZE /\ Pow2(r.size_pow2) <= MAX_ROM_SIZE

C6_AbsentMachine ==
    [][(pc = "elem" /\ \/ \A i \in 1..Len(elem.roms) : ~SpecSurvives(elem.roms[i])
                       \/ ~Truthy(elem.name))
        => /\ pc' = "iter"
           /\ db' = db
           /\ machine_id' = machine_id
           /\ existing_machines' = existing_machines
           /\ machines_data' = machines_data
           /\ machine_roms_data' = machine_roms_data]_vars

\* C7: once every document of a build is ingested, a parent id is the id of
\* the machine that bears the raw parent name, and NULL when there is none.
ParentResolved(d, raw, id) ==
    IF \E t \in d.machines : t.name = raw
    THEN id = Some((CHOOSE t \in d.machines : t.name = raw).id)
    ELSE id = NULL

C7_ParentsResolved ==
    pc = "extract" =>
        \A m \in db.machines :
            /\ ParentResolved(db, m.cloneof, m.cloneof_id)
            /\ ParentResolved(db, m.romof, m.romof_id)

\* C8: when the post-processing is over, every parent id is NULL or the id of
\* a machine of the catalogue.
C8_NoDanglingParent ==
    pc = "done" =>
        \A m \in db.machines :
            /\ m.cloneof_id = NULL \/ m.cloneof_id[1] \in Ids(db.machines)
            /\ m.romof_id = NULL \/ m.romof_id[1] \in Ids(db.machines)

\* The build is over, the shared-BIOS pass made machine 3, one of the two
\* ingested machines was deleted, and the survivor's cloneof, which named a
\* machine, is NULL.
C8_Witness ==
    /\ pc = "done"
    /\ Cardinality(db.machines) = 2
    /\ \E g \in db.machines : g.name = neogeo_bios /\ g.id = 3
    /\ \E m \in db.machines : Truthy(m.cloneof) /\ m.cloneof_id = NULL

\* C9: orphan cleanup leaves no machine without machine_roms row, no
\* manufacturer without machine, no rom_name without Rom or machine_roms row,
\* and deletes nothing that is referenced.
OrphanFree(d) ==
    /\ \A m \in d.machines :
          \E mr \in Range(d.machine_roms) : mr.machine_id = m.id
    /\ \A f \in d.manufacturers :
          \E m \in d.machines : m.manufacturer_id = Some(f.id)
    /\ \A n \in d.rom_names :
          \/ \E r \in d.roms : r.name_id = n.id
          \/ \E mr \in Range(d.machine_roms) : mr.name_id = n.id

ReferencedKept(d, e) ==
    /\ e.roms = d.roms
    /\ e.machine_roms = d.machine_roms
    /\ \A m \in d.machines :
          (\E mr \in Range(d.machine_roms) : mr.machine_id = m.id)
              => m.id \in Ids(e.machines)
    /\ \A f \in d.manufacturers :
          (\E m \in e.machines : m.manufacturer_id = Some(f.id))
              => f \in e.manufacturers
    /\ \A n \in d.rom_names :
          (\/ \E r \in d.roms : r.name_id = n.id
           \/ \E mr \in Range(d.machine_roms) : mr.name_id = n.id)
              => n \in e.rom_names

C9_CleanupOrphanFree ==
    [][pc = "cleanup" => OrphanFree(db') /\ ReferencedKept(db, db')]_vars

\* The build is over and the cleanup deleted a machine, a manufacturer and a
\* rom_name: fewer rows are left than ids were handed out.
C9_Witness ==
    /\ pc = "done"
    /\ Cardinality(db.machines) < max_machine_id(db)
    /\ Cardinality(db.manufacturers) < db.seq.manufacturers
    /\ Cardinality(db.rom_names) < db.seq.rom_names

\* C10: a document whose basename starts with "mame" and holds no "mess" is
\* processed before every document that is not such.
IsMainMame(path) == StartsWith(path, mame) /\ ~Contains(mess, path)

C10_MameFirst ==
    \A i, j \in 1..Len(dat_files) :
        (IsMainMame(dat_files[j]) /\ ~IsMainMame(dat_files[i])) => j < i

-----------------------------------------------------------------------------
(* The shared-BIOS pass *)

\* The ROMs linked to more than the threshold of distinct machines.
SpecB(d) ==
    {r.id : r \in {q \in d.roms :
        Cardinality({mr.machine_id :
                        mr \in {x \in Range(d.machine_roms) : x.rom_id = q.id}})
            > NEOGEO_BIOS_THRESHOLD}}

HasBios(d) == \E m \in d.machines : m.name = neogeo_bios

BiosId(d) == (CHOOSE m \in d.machines : m.name = neogeo_bios).id

\* The ROMs that the synthetic machine is linked to.
LinkedToBios(d) ==
    IF HasBios(d)
    THEN {mr.rom_id : mr \in {x \in Range(d.machine_roms) : x.machine_id = BiosId(d)}}
    ELSE {}

RowsOf(d, rid) == {i \in 1..Len(d.machine_roms) : d.machine_roms[i].rom_id = rid}

\* The pass runs on a catalogue without neogeo_bios and creates it.
PassRan == pc = "extract" /\ ~HasBios(db) /\ HasBios(db')

\* C11: on a catalogue without neogeo_bios, the ROMs the pass moves to the
\* synthetic machine are exactly those linked to more than the threshold of
\* distinct machines; repeated rows of one machine count once.
C11_BiosSelection ==
    [][(pc = "extract" /\ ~HasBios(db)) => LinkedToBios(db') = SpecB(db)]_vars

\* C12: when the pass creates neogeo_bios, each ROM it is linked to has exactly
\* one machine_roms row, the rows of the other ROMs are as before, in the same
\* order, and the Rom records are as before.
C12_BiosFrame ==
    [][PassRan =>
        LET B == LinkedToBios(db')
            other(mr) == mr.rom_id \notin B
        IN  /\ B # {}
            /\ \A rid \in B :
                  /\ Cardinality(RowsOf(db', rid)) = 1
                  /\ \A i \in RowsOf(db', rid) :
                        db'.machine_roms[i].machine_id = BiosId(db')
            /\ SelectSeq(db'.machine_roms, other) = SelectSeq(db.machine_roms, other)
            /\ db'.roms = db.roms]_vars

\* The pass made machine 4 out of a ROM shared by the three ingested machines
\* and left a row of another ROM in place.
C12_Witness ==
    /\ pc = "cleanup"
    /\ HasBios(db)
    /\ BiosId(db) = 4
    /\ \E i \in 1..Len(db.machine_roms) : db.machine_roms[i].machine_id # 4

PostProcess(d) == cleanup_orphans(extract_neogeo_bios(d))

\* C14: post-processing an ingested catalogue twice gives what post-processing
\* it once gives, and the pass leaves a catalogue that holds neogeo_bios as it
\* is.
C14_Idempotent ==
    /\ pc = "extract" => PostProcess(PostProcess(db)) = PostProcess(db)
    /\ HasBios(db) => extract_neogeo_bios(db) = db

\* A catalogue is about to be post-processed, and the post-processing makes
\* neogeo_bios and deletes a machine and a manufacturer.
C14_Witness ==
    /\ pc = "extract"
    /\ ~HasBios(db)
    /\ HasBios(PostProcess(db))
    /\ \E m \in db.machines : m.id \notin Ids(PostProcess(db).machines)
    /\ \E f \in db.manufacturers : f \notin PostProcess(db).manufacturers

-----------------------------------------------------------------------------
(* The generator *)

Written == out.status = "written"

\* The band the generator ran with.
OutMin == IF Written THEN out.blob.min_size_pow2 ELSE out.min_size_pow2
OutMax == IF Written THEN out.blob.max_size_pow2 ELSE out.max_size_pow2

\* The ROMs of the catalogue file that go to the output: within the band and
\* with a digest of full length.
OutputRoms ==
    {r \in disk.roms : /\ r.size_pow2 >= OutMin /\ r.size_pow2 <= OutMax
                       /\ Len(r.sha1) = SHA1_BYTES}

ClassCount(k) == Cardinality({r \in OutputRoms : r.size_pow2 = k})

\* C15: the id of the ROM at position p (from 0) of the ROM table is
\* size_pow2 * 2^16 + index with index = p - start of its class in the size
\* index; index lies between the number of ROMs of the class with a smaller
\* digest and the number with a smaller or equal digest; ids are unique.
C15_RomIds ==
    Written =>
        LET rs == out.data.roms
        IN  /\ {r.old_id : r \in Range(rs)} = {r.id : r \in OutputRoms}
            /\ \A i \in 1..Len(rs) :
                  LET k == rs[i].size_pow2
                      index == rs[i].new_id % Pow2(16)
                      smaller == {j \in 1..Len(rs) :
                                    /\ rs[j].size_pow2 = k
                                    /\ BytesLess(rs[j].sha1, rs[i].sha1)}
                      equal == {j \in 1..Len(rs) :
                                    rs[j].size_pow2 = k /\ rs[j].sha1 = rs[i].sha1}
                  IN  /\ rs[i].new_id = k * Pow2(16) + index
                      /\ index >= Cardinality(smaller)
                      /\ index < Cardinality(smaller) + Cardinality(equal)
                      /\ out.blob.size_index[k][1] + index = i - 1
                      /\ out.blob.roms[i].sha1 = rs[i].sha1
            /\ \A i, j \in 1..Len(rs) : rs[i].new_id = rs[j].new_id => i = j

\* A blob with two classes, the second starting after two ROMs of the first
\* that the sort by digest put in the reverse of their catalogue order.
C15_Witness ==
    /\ Written
    /\ Len(out.data.roms) = 3
    /\ out.data.roms[1].old_id > out.data.roms[2].old_id
    /\ out.data.roms[1].size_pow2 = out.data.roms[2].size_pow2
    /\ out.data.roms[3].new_id = 9 * Pow2(16)

\* C16 as stated: the generator fails exactly when some size class holds more
\* ROMs than the largest index.
C16_CountFits ==
    out.status \in {"written", "error"} =>
        (out.status = "error" <=> \E k \in OutMin..OutMax : ClassCount(k) > ROM_INDEX_MAX)

\* C16 as the code has it: the generator fails, and writes no blob, exactly
\* when some size class holds a ROM whose index is above the largest index,
\* that is when the class holds more than the largest index plus one ROMs.
C16_IndexFits ==
    out.status \in {"written", "error"} =>
        (out.status = "error" <=> \E k \in OutMin..OutMax : ClassCount(k) > ROM_INDEX_MAX + 1)

\* The generator failed on a class of three ROMs.
C16_Witness ==
    /\ out.status = "error"
    /\ \E k \in OutMin..OutMax : ClassCount(k) = ROM_INDEX_MAX + 2

\* C17: in a blob every machine id and rom_name id is below the 24-bit null
\* and every manufacturer id below the 16-bit null.
C17_WidthsEnforced ==
    Written =>
        /\ out.blob.machines_count <= NULL_ID_24
        /\ out.blob.rom_names_count <= NULL_ID_24
        /\ out.blob.manufacturers_count <= NULL_ID_16

\* C18: in the ROM table, two consecutive entries of one size class have
\* strictly ascending digests.
C18_StrictlyAscending ==
    Written =>
        \A i \in 1..(Len(out.data.roms) - 1) :
            out.data.roms[i].size_pow2 = out.data.roms[i + 1].size_pow2
                => BytesLess(out.blob.roms[i].sha1, out.blob.roms[i + 1].sha1)

\* The catalogue rows (machine, rom) behind the pair of an output row.
CatalogueRows(mr) ==
    {i \in 1..Len(disk.machine_roms) :
        /\ disk.machine_roms[i].machine_id = out.data.machines[mr.machine_id + 1].old_id
        /\ \E r \in Range(out.data.roms) :
              r.new_id = mr.rom_id /\ r.old_id = disk.machine_roms[i].rom_id}

\* C19: the MachineRom table is ascending by (rom_id, machine_id), and a pair
\* has as many rows as in the catalogue.
C19_MachineRomsSorted ==
    Written =>
        LET t == out.blob.machine_roms
        IN  /\ \A i \in 1..(Len(t) - 1) :
                  \/ t[i].rom_id < t[i + 1].rom_id
                  \/ t[i].rom_id = t[i + 1].rom_id /\ t[i].machine_id <= t[i + 1].machine_id
            /\ \A i \in 1..Len(t) :
                  Cardinality({j \in 1..Len(t) : /\ t[j].rom_id = t[i].rom_id
                                                 /\ t[j].machine_id = t[i].machine_id})
                      = Cardinality(CatalogueRows(t[i]))

\* A blob whose first two rows are a repeated pair and whose last row is of a
\* ROM that the catalogue numbered before theirs.
C19_Witness ==
    /\ Written
    /\ Len(out.blob.machine_roms) = 3
    /\ out.blob.machine_roms[1] = out.blob.machine_roms[2]
    /\ \E r, q \in Range(out.data.roms) :
          /\ r.new_id = out.blob.machine_roms[1].rom_id
          /\ q.new_id = out.blob.machine_roms[3].rom_id
          /\ q.old_id < r.old_id

\* The machine of the catalogue file behind the machine of new id n.
CatalogueMachine(n) ==
    CHOOSE m \in disk.machines : m.id = out.data.machines[n + 1].old_id

\* The parent reference is null in the catalogue or names no machine of the
\* output.
NoTarget(ref) ==
    ref = NULL \/ \A i \in 1..Len(out.data.machines) : out.data.machines[i].old_id # ref[1]

\* C20: every reference of the blob is the null of its width or an index
\* below the count of its table, every machine id of the MachineRom table is
\* below the count of machines, and a parent that is null in the catalogue or
\* was left out of the blob, like a null manufacturer, is emitted as the null.
C20_ReferencesValid ==
    Written =>
        LET b == out.blob
        IN  /\ \A i \in 1..Len(b.machines) :
                  /\ b.machines[i].cloneof_id = NULL_ID_24
                        \/ b.machines[i].cloneof_id < b.machines_count
                  /\ b.machines[i].romof_id = NULL_ID_24
                        \/ b.machines[i].romof_id < b.machines_count
                  /\ b.machines[i].manufacturer_id = NULL_ID_16
                        \/ b.machines[i].manufacturer_id < b.manufacturers_count
                  /\ NoTarget(CatalogueMachine(i - 1).cloneof_id)
                        => b.machines[i].cloneof_id = NULL_ID_24
                  /\ NoTarget(CatalogueMachine(i - 1).romof_id)
                        => b.machines[i].romof_id = NULL_ID_24
                  /\ CatalogueMachine(i - 1).manufacturer_id = NULL
                        => b.machines[i].manufacturer_id = NULL_ID_16
            /\ \A i \in 1..Len(b.roms) :
                  b.roms[i].name_id = NULL_ID_24 \/ b.roms[i].name_id < b.rom_names_count
            /\ \A i \in 1..Len(b.machine_roms) :
                  /\ b.machine_roms[i].name_id = NULL_ID_24
                        \/ b.machine_roms[i].name_id < b.rom_names_count
                  /\ b.machine_roms[i].machine_id < b.machines_count

\* A blob with a machine whose parent is in the catalogue and not in the blob:
\* its cloneof_id is the null.
C20_Witness ==
    /\ Written
    /\ \E i \in 1..Len(out.blob.machines) :
          /\ CatalogueMachine(i - 1).cloneof_id # NULL
          /\ CatalogueMachine(i - 1).cloneof_id[1] \in Ids(disk.machines)
          /\ out.blob.machines[i].cloneof_id = NULL_ID_24

-----------------------------------------------------------------------------
(* The blob *)

\* Header field i as a consumer reads it: fields 1..5 are the counts of ROMs,
\* machines, MachineRoms, manufacturers and RomNames, fields 6..13 the offsets
\* of the size index, the five tables and the two pools.
HeaderField(i) == unpack(SubSeq(out.blob.bytes, 4 + 4 * i + 1, 4 + 4 * i + 4))

HeaderMin == out.blob.bytes[7]
HeaderMax == out.blob.bytes[8]

\* Where part k of the blob starts: the bytes appended before it.
PartStart(k) == Len(Concat(SubSeq(out.blob.sections, 1, k - 1)))

\* C21: the size index starts at HEADER_SIZE; the offset of each of the eight
\* sections after the header is where its bytes start in the blob; offset plus
\* byte size (the entries of the band times 8, the count times the entry
\* size, the length of the pool) is the offset of the next section, and for
\* the descriptions pool the length of the blob.
C21_Layout ==
    Written =>
        LET offset(i) == HeaderField(5 + i)
            size == <<(HeaderMax - HeaderMin + 1) * 8,
                      HeaderField(1) * ROM_ENTRY_SIZE,
                      HeaderField(2) * 20,
                      HeaderField(3) * 9,
                      HeaderField(4) * 4,
                      HeaderField(5) * 4,
                      Len(out.blob.sections[8]),
                      Len(out.blob.sections[9])>>
        IN  /\ offset(1) = HEADER_SIZE
            /\ \A i \in 1..8 : offset(i) = PartStart(i + 1)
            /\ \A i \in 1..7 : offset(i) + size[i] = offset(i + 1)
            /\ offset(8) + size[8] = Len(out.blob.bytes)
            /\ HeaderField(1) = Len(out.data.roms)
            /\ HeaderField(2) = Len(out.data.machines)
            /\ HeaderField(3) = Len(out.data.machine_roms)
            /\ HeaderField(4) = Len(out.data.manufacturers)
            /\ HeaderField(5) = Len(out.data.rom_names)

\* A blob none of whose sections is empty, with two machines.
C21_Witness ==
    /\ Written
    /\ \A k \in 1..9 : out.blob.sections[k] # <<>>
    /\ Len(out.data.machines) = 2
    /\ Len(out.data.roms) >= 2

\* Entry i (from 1) of the size index as a consumer reads it.
SizeIndexStart(i) == unpack(SubSeq(out.blob.sections[2], 8 * i - 7, 8 * i - 4))
SizeIndexEnd(i) == unpack(SubSeq(out.blob.sections[2], 8 * i - 3, 8 * i))

\* C22: the size index has one entry per class of the band; the first starts
\* at 0, each starts where the one before ends, the last ends at the size of
\* the ROM table, every offset is a multiple of the entry size, and an entry
\* spans as many entries as the class has output ROMs.
C22_SizeIndexPartition ==
    Written =>
        LET n == OutMax - OutMin + 1
        IN  /\ Len(out.blob.sections[2]) = 8 * n
            /\ SizeIndexStart(1) = 0
            /\ \A i \in 2..n : SizeIndexStart(i) = SizeIndexEnd(i - 1)
            /\ SizeIndexEnd(n) = HeaderField(1) * ROM_ENTRY_SIZE
            /\ \A i \in 1..n :
                  /\ SizeIndexStart(i) % ROM_ENTRY_SIZE = 0
                  /\ SizeIndexEnd(i) % ROM_ENTRY_SIZE = 0
                  /\ SizeIndexEnd(i) - SizeIndexStart(i)
                        = ROM_ENTRY_SIZE * ClassCount(OutMin + i - 1)

\* A blob of the band 8..9 whose second class starts after the two ROMs of the
\* first.
C22_Witness ==
    /\ Written
    /\ OutMin = 8 /\ OutMax = 9
    /\ ClassCount(8) = 2
    /\ ClassCount(9) = 1
    /\ SizeIndexStart(2) = 2 * ROM_ENTRY_SIZE

\* The machines of the catalogue file linked to a ROM of the band.
MachinesOfBand ==
    {m \in disk.machines :
        \E mr \in Range(disk.machine_roms) :
            /\ mr.machine_id = m.id
            /\ \E r \in disk.roms : /\ r.id = mr.rom_id
                                    /\ r.size_pow2 >= OutMin
                                    /\ r.size_pow2 <= OutMax}

\* C23: the machines of the blob are the machines of the catalogue linked to
\* a ROM of the band, each once, in ascending order of their catalogue ids,
\* the machine at position p (from 0) having the id p.
C23_OutputMachines ==
    Written =>
        LET ms == out.data.machines
        IN  /\ {ms[i].old_id : i \in 1..Len(ms)} = Ids(MachinesOfBand)
            /\ \A i, j \in 1..Len(ms) : i < j => ms[i].old_id < ms[j].old_id
            /\ \A i \in 1..Len(out.blob.machine_roms) :
                  \E r \in Range(disk.machine_roms) :
                      /\ out.blob.machine_roms[i].machine_id + 1 \in 1..Len(ms)
                      /\ r.machine_id = ms[out.blob.machine_roms[i].machine_id + 1].old_id

\* C24: every manufacturer of the blob is the manufacturer_id of a machine of
\* the blob, every RomName the name_id of a ROM or of a MachineRom of the
\* blob, and every machine the machine_id of a MachineRom of the blob; a null
\* is no reference.
C24_OrphanFree ==
    Written =>
        LET b == out.blob
        IN  /\ \A f \in 0..(b.manufacturers_count - 1) :
                  /\ f # NULL_ID_16
                  /\ \E i \in 1..Len(b.machines) : b.machines[i].manufacturer_id = f
            /\ \A n \in 0..(b.rom_names_count - 1) :
                  /\ n # NULL_ID_24
                  /\ \/ \E i \in 1..Len(b.roms) : b.roms[i].name_id = n
                     \/ \E i \in 1..Len(b.machine_roms) : b.machine_roms[i].name_id = n
            /\ \A m \in 0..(b.machines_count - 1) :
                  \E i \in 1..Len(b.machine_roms) : b.machine_roms[i].machine_id = m

\* The NUL-terminated string that starts at the offset (from 0) of the pool.
RECURSIVE CString(_, _)
CString(pool, offset) ==
    IF offset >= Len(pool) \/ pool[offset + 1] = 0 THEN <<>>
    ELSE <<pool[offset + 1]>> \o CString(pool, offset + 1)

\* The strings of the pool in their order: one starts at 0 and one after
\* each NUL but the last.
RECURSIVE CStrings(_, _)
CStrings(pool, offset) ==
    IF offset >= Len(pool) THEN <<>>
    ELSE <<CString(pool, offset)>>
            \o CStrings(pool, offset + Len(CString(pool, offset)) + 1)

\* The names the blob refers to.
ReferencedStrings ==
    Range(out.data.manufacturers) \cup Range(out.data.rom_names)
        \cup {m.name : m \in Range(out.data.machines)}

\* name_offset of entry n (from 1) of a table whose entries are size bytes
\* long and start with it.
NameOffset(section, size, n) ==
    unpack(SubSeq(out.blob.sections[section], size * (n - 1) + 1, size * (n - 1) + 4))

\* C25: the strings pool is the referenced strings, each once and followed by
\* one NUL, in strictly ascending order, so that the offset of a string is the
\* sum of the lengths plus one of the strings before it; the pool ends with a
\* NUL; the name_offset of every machine, manufacturer and RomName is the
\* offset of its own name, and that of the empty string is 0.
C25_StringsPool ==
    Written =>
        LET pool == out.blob.sections[8]
            strs == CStrings(pool, 0)
            own(section, size, n, name) ==
                /\ NameOffset(section, size, n) < Len(pool)
                /\ CString(pool, NameOffset(section, size, n)) = utf8(name)
                /\ \E k \in 1..Len(strs) :
                      /\ strs[k] = utf8(name)
                      /\ NameOffset(section, size, n)
                            = Len(Concat([j \in 1..(k - 1) |-> strs[j] \o <<0>>]))
                /\ name = <<>> => NameOffset(section, size, n) = 0
        IN  /\ Range(strs) = {utf8(x) : x \in ReferencedStrings}
            /\ \A i \in 1..(Len(strs) - 1) : BytesLess(strs[i], strs[i + 1])
            /\ pool = Concat([j \in 1..Len(strs) |-> strs[j] \o <<0>>])
            /\ \A n \in 1..Len(out.data.machines) :
                  own(4, 20, n, out.data.machines[n].name)
            /\ \A n \in 1..Len(out.data.manufacturers) :
                  own(6, 4, n, out.data.manufacturers[n])
            /\ \A n \in 1..Len(out.data.rom_names) :
                  own(7, 4, n, out.data.rom_names[n])

\* A blob whose pool holds the empty string and a string that is the name of
\* a machine, of a manufacturer and of a ROM file at once.
C25_Witness ==
    /\ Written
    /\ <<>> \in Range(out.data.rom_names)
    /\ \E x \in Range(out.data.rom_names) :
          /\ x # <<>>
          /\ x \in Range(out.data.manufacturers)
          /\ \E m \in Range(out.data.machines) : m.name = x
    /\ Cardinality(ReferencedStrings) >= 4

-----------------------------------------------------------------------------
(* The year of a machine *)

\* The decimal number that the first four characters of the text spell, NULL
\* without text or when they spell no number.
SpecYear(text) ==
    IF Truthy(text) /\ AllDigits(SubSeq(text, 1, IF Len(text) < 4 THEN Len(text) ELSE 4))
    THEN Some(DigitsValue(SubSeq(text, 1, IF Len(text) < 4 THEN Len(text) ELSE 4)))
    ELSE NULL

YearInRange(year) == year = NULL \/ year[1] \in 0..65535

\* C26: the year of a parsed machine is the number its <year> text starts
\* with or NULL; the year of every machine of the catalogue is NULL or within
\* 0..65535, and so is the year of every machine buffered for the end of the
\* document, so that the INSERT of the buffered machines does not fail on a
\* year.
C26_YearStored ==
    /\ pc = "elem" => machine_attrs.year = SpecYear(elem.year)
    /\ \A m \in db.machines : YearInRange(m.year)
    /\ \A i \in 1..Len(machines_data) : YearInRange(machines_data[i].year)

-----------------------------------------------------------------------------
(* Determinism *)

\* C27: the blob written for a catalogue file and a band is the same whatever
\* order the catalogue returns the rows of equal ORDER BY keys in: a second
\* run on the same documents writes the same bytes.
C27_Deterministic ==
    Written =>
        \A tie \in Ties :
            LET again == generated(disk, OutMin, OutMax, tie)
            IN  again.status = "written" /\ again.blob.bytes = out.blob.bytes

-----------------------------------------------------------------------------
(* Every ROM has a machine *)

\* The Rom records of a catalogue without a machine_roms row of a machine of
\* the catalogue.
UnreferencedRoms(d) ==
    {r \in d.roms :
        ~\E mr \in Range(d.machine_roms) :
            mr.rom_id = r.id /\ mr.machine_id \in Ids(d.machines)}

\* C30: in the catalogue file, as every document, the shared-BIOS pass and
\* the orphan cleanup leave it, in a full build and when documents are added
\* to an existing catalogue, each Rom record is linked to a machine of the
\* catalogue; so is the catalogue of the running build between the steps of
\* the post-processing.
C30_RomsReferenced ==
    /\ UnreferencedRoms(disk) = {}
    /\ pc \in {"extract", "cleanup", "done"} => UnreferencedRoms(db) = {}

\* A build is over in which the shared-BIOS pass took the rows of a ROM from
\* the machines and the cleanup deleted a machine that had no other ROM.
C30_Witness ==
    /\ pc = "done"
    /\ HasBios(disk)
    /\ Cardinality(disk.machines) < max_machine_id(disk)
    /\ \E r \in disk.roms :
          \A mr \in Range(disk.machine_roms) :
              mr.rom_id = r.id => mr.machine_id = BiosId(disk)

\* Documents were added to an existing catalogue and the cleanup ran.
C30_WitnessAdd ==
    /\ pc = "done"
    /\ mode = "add_dat"
    /\ Cardinality(disk.roms) >= 2

-----------------------------------------------------------------------------
(* The lookups of the consumer *)

\* The pointer to the entry of ROM i of the table of the call
RomEntry(i) == RomsOffset + (i - 1) * ROM_ENTRY_SIZE

\* The rows of the machine_roms table of the call whose rom_id is the id of
\* the ROM asked for, in table order
RowsOfRom ==
    LET j == CHOOSE i \in 1..Len(call.data.roms) : RomEntry(i) = call.rom
        of_rom(row) == row.rom_id = call.data.roms[j].new_id
    IN  SelectSeq(call.data.machine_roms, of_rom)

\* C28: on a machine_roms table sorted by (rom_id, machine_id),
\* mrdb_get_machines_for_rom returns, and what it returns is the number of
\* rows of the table with the id of the ROM asked for (0 when there is
\* none); the first min(count, max_results) slots of results hold the first
\* of these rows in table order, and no other slot is written.
C28_MachinesForRom ==
    /\ [](call.fn = "get_machines" /\ call.pc = "returned" =>
            /\ call.ret = Len(RowsOfRom)
            /\ \A i \in 1..call.max_results :
                  call.results[i] =
                     IF call.has_results /\ i <= Len(RowsOfRom)
                     THEN [machine_id |-> RowsOfRom[i].machine_id,
                           rom_name_id |-> RowsOfRom[i].name_id]
                     ELSE Unwritten)
    /\ (call.fn = "get_machines") ~> (call.pc = "returned")

\* A call has returned a count above max_results for a ROM whose rows lie
\* between the rows of two other ROMs, and has written its one slot.
C28_Witness ==
    /\ call.fn = "get_machines"
    /\ call.pc = "returned"
    /\ call.ret = 2
    /\ call.max_results = 1
    /\ call.results[1] # Unwritten
    /\ Len(call.data.machine_roms) = 3
    /\ call.data.machine_roms[1].rom_id # call.rom_id
    /\ call.data.machine_roms[2].machine_id = call.data.machine_roms[3].machine_id

\* A call has returned 0 for a ROM without rows in a table that has rows.
C28_WitnessNone ==
    /\ call.fn = "get_machines"
    /\ call.pc = "returned"
    /\ call.ret = 0
    /\ Len(call.data.machine_roms) = MaxRows

\* The pointers to the entries of the class asked for
ClassEntries ==
    {RomEntry(i) : i \in {j \in 1..Len(call.data.roms) :
                            call.data.roms[j].size_pow2 = call.size_pow2}}

\* The pointers to the entries of the class asked for that hold the digest
\* asked for
MatchingEntries ==
    {RomEntry(i) : i \in {j \in 1..Len(call.data.roms) :
                            /\ call.data.roms[j].size_pow2 = call.size_pow2
                            /\ call.data.roms[j].sha1 = call.sha1}}

\* C29: on a blob whose ROM table is strictly ascending by SHA-1 within
\* each class, mrdb_find_rom_by_sha1 returns; it returns the entry of the
\* class asked for that holds the digest asked for when there is one, and
\* NULL when there is none (no such digest, an empty class, a size outside
\* the band); and every entry it compares lies in the class asked for.
C29_FindRom ==
    /\ [](call.fn = "find_rom" =>
            /\ call.inspected \subseteq ClassEntries
            /\ call.pc = "returned" =>
                  IF MatchingEntries # {} THEN call.ret \in MatchingEntries
                  ELSE call.ret = NULL_PTR)
    /\ (call.fn = "find_rom") ~> (call.pc = "returned")

\* A lookup has found the last entry of the second class, of three entries,
\* after comparing two of them, the first class being full too.
C29_Witness ==
    /\ call.fn = "find_rom"
    /\ call.pc = "returned"
    /\ call.ret = RomEntry(6)
    /\ call.size_pow2 = CallMax
    /\ Cardinality(call.inspected) = 2
    /\ Len(call.data.roms) = 6

\* A lookup has returned NULL after comparing two entries of a class.
C29_WitnessNull ==
    /\ call.fn = "find_rom"
    /\ call.pc = "returned"
    /\ call.ret = NULL_PTR
    /\ Cardinality(call.inspected) = 2

====
